---- MODULE Spec2Model ----
(***************************************************************************)
(* helmwave-updater: the line-oriented patch engine (updateFileText), the  *)
(* section stripper (removeTopLevelSection) and main with its comparator   *)
(* (loadIndexes, processReleases, buildVersionMap, buildChartVersionMap).  *)
(*                                                                         *)
(* Text is modelled byte by byte: a string is a sequence of one-character  *)
(* strings, a document is such a sequence with "\n" between its lines.     *)
(***************************************************************************)
EXTENDS Integers, Sequences, FiniteSets, TLC

(***************************************************************************)
(* Package strings of the Go standard library, as the code uses it.        *)
(***************************************************************************)
\* unicode.IsSpace on the ASCII range that documents use
WhiteSpace == {" ", "\t", "\r", "\n"}

RECURSIVE LeadCount(_, _)
LeadCount(s, cut) ==
    IF s = <<>> \/ Head(s) \notin cut THEN 0 ELSE 1 + LeadCount(Tail(s), cut)

RECURSIVE TrailCount(_, _)
TrailCount(s, cut) ==
    IF s = <<>> \/ s[Len(s)] \notin cut THEN 0
    ELSE 1 + TrailCount(SubSeq(s, 1, Len(s) - 1), cut)

TrimLeft(s, cut) == SubSeq(s, LeadCount(s, cut) + 1, Len(s))

TrimRight(s, cut) == SubSeq(s, 1, Len(s) - TrailCount(s, cut))

Trim(s, cut) == TrimRight(TrimLeft(s, cut), cut)

TrimSpace(s) == Trim(s, WhiteSpace)

HasPrefix(s, p) == Len(s) >= Len(p) /\ SubSeq(s, 1, Len(p)) = p

TrimPrefix(s, p) == IF HasPrefix(s, p) THEN SubSeq(s, Len(p) + 1, Len(s)) ELSE s

\* strings.Index(s, c) for a one-byte c: the 0-based offset of its first occurrence, or -1
Index(s, c) ==
    IF \E k \in 1..Len(s) : s[k] = c
    THEN (CHOOSE k \in 1..Len(s) : s[k] = c /\ \A j \in 1..(k - 1) : s[j] # c) - 1
    ELSE -1

Contains(s, c) == \E k \in 1..Len(s) : s[k] = c

Repeat(c, n) == [k \in 1..n |-> c]

\* strings.Split(text, "\n"): always at least one element
RECURSIVE Split(_)
Split(text) ==
    LET k == Index(text, "\n")
    IN  IF k < 0 THEN <<text>>
        ELSE <<SubSeq(text, 1, k)>> \o Split(SubSeq(text, k + 2, Len(text)))

\* strings.Join(lines, "\n")
RECURSIVE Join(_)
Join(ls) ==
    IF Len(ls) = 0 THEN <<>>
    ELSE IF Len(ls) = 1 THEN ls[1]
    ELSE ls[1] \o <<"\n">> \o Join(Tail(ls))

\* len(line) - len(strings.TrimLeft(line, " "))
IndentOf(line) == Len(line) - Len(TrimLeft(line, {" "}))

(***************************************************************************)
(* String literals of updateFileText.                                      *)
(***************************************************************************)
DashName == <<"-", " ", "n", "a", "m", "e", ":">>
ChartKey == <<"c", "h", "a", "r", "t", ":">>
NameKey == <<"n", "a", "m", "e", ":">>
VersionKey == <<"v", "e", "r", "s", "i", "o", "n", ":">>
VersionOut == <<"v", "e", "r", "s", "i", "o", "n", ":", " ">>
Quotes == {"'", "\""}
DQ == "\""

(***************************************************************************)
(* updateFileText: the pieces of one loop iteration.                       *)
(***************************************************************************)
\* the value of a "- name:" line: comment cut off, quotes trimmed
ReleaseNamePart(trimmed) ==
    LET p0 == TrimSpace(TrimPrefix(trimmed, DashName))
        idx == Index(p0, "#")
        p1 == IF idx >= 0 THEN TrimSpace(SubSeq(p0, 1, idx)) ELSE p0
    IN  Trim(p1, Quotes)

\* the value of a "name:" line inside an anchor's chart: quotes trimmed
AnchorNameVal(trimmed) == Trim(TrimSpace(TrimPrefix(trimmed, NameKey)), Quotes)

\* a variant that takes every chart: line for a block opener
IsChartPrefix(trimmed) == HasPrefix(trimmed, ChartKey)

IsBlockChart(trimmed) == HasPrefix(trimmed, ChartKey) /\ TrimSpace(trimmed) = ChartKey

AfterVersion(trimmed) == TrimSpace(TrimPrefix(trimmed, VersionKey))

CommentOf(after) ==
    LET idx == Index(after, "#")
    IN  IF idx >= 0 THEN <<" ">> \o TrimSpace(SubSeq(after, idx + 1, Len(after)))
        ELSE <<>>

OrigVal(after) == Trim(TrimRight(TrimSpace(after), {"#", " "}), Quotes)

UseQuotes(after) == Contains(after, "\"") \/ Contains(after, "'")

ValStr(after, newVer) ==
    IF UseQuotes(after) THEN <<DQ>> \o newVer \o <<DQ>> ELSE newVer

\* a variant that keeps the old line and puts the new one after it
NewLineAppended(indent, after, newVer) ==
    Repeat(" ", indent) \o VersionOut \o after \o <<"\n">>
    \o Repeat(" ", indent) \o VersionOut \o ValStr(after, newVer) \o CommentOf(after)

\* a variant that writes the value without its key
NewLineBare(indent, after, newVer) ==
    Repeat(" ", indent) \o ValStr(after, newVer) \o CommentOf(after)

NewLine(indent, after, newVer) ==
    Repeat(" ", indent) \o VersionOut \o ValStr(after, newVer) \o CommentOf(after)

\* what a version: line becomes once it is the target
PatchedLine(line, newVer) ==
    LET after == AfterVersion(TrimSpace(line))
    IN  IF OrigVal(after) = newVer THEN line
        ELSE NewLine(IndentOf(line), after, newVer)

\* a variant in which a "- name:" line of another release leaves an open scope open
ReleaseLineOpen(line, relName, newVer, s) ==
    LET trimmed == TrimSpace(line)
        indent == IndentOf(line)
        isName == HasPrefix(trimmed, DashName)
    IN  IF isName /\ ReleaseNamePart(trimmed) = relName
        THEN [st |-> [s EXCEPT !.inRelease = TRUE, !.inChart = FALSE], line |-> line]
        ELSE IF ~s.inRelease
        THEN [st |-> s, line |-> line]
        ELSE IF IsBlockChart(trimmed)
        THEN [st |-> [s EXCEPT !.inChart = TRUE, !.chartIndent = indent], line |-> line]
        ELSE IF ~s.inChart
        THEN [st |-> s, line |-> line]
        ELSE IF indent <= s.chartIndent /\ ~HasPrefix(trimmed, VersionKey)
        THEN [st |-> [s EXCEPT !.inChart = FALSE], line |-> line]
        ELSE IF HasPrefix(trimmed, VersionKey)
        THEN [st |-> [s EXCEPT !.inChart = FALSE, !.inRelease = FALSE],
              line |-> PatchedLine(line, newVer)]
        ELSE [st |-> s, line |-> line]

\* One iteration of the release loop on `line`; s holds inRelease, inChart, chartIndent.
ReleaseLine(line, relName, newVer, s) ==
    LET trimmed == TrimSpace(line)
        indent == IndentOf(line)
        isName == HasPrefix(trimmed, DashName)
        s1 == IF isName /\ s.inRelease
              THEN [s EXCEPT !.inRelease = FALSE, !.inChart = FALSE]
              ELSE s
    IN  IF isName /\ ReleaseNamePart(trimmed) = relName
        THEN [st |-> [s EXCEPT !.inRelease = TRUE, !.inChart = FALSE], line |-> line]
        ELSE IF ~s1.inRelease
        THEN [st |-> s1, line |-> line]
        ELSE IF IsBlockChart(trimmed)
        THEN [st |-> [s1 EXCEPT !.inChart = TRUE, !.chartIndent = indent], line |-> line]
        ELSE IF ~s1.inChart
        THEN [st |-> s1, line |-> line]
        ELSE IF indent <= s1.chartIndent /\ ~HasPrefix(trimmed, VersionKey)
        THEN [st |-> [s1 EXCEPT !.inChart = FALSE], line |-> line]
        ELSE IF HasPrefix(trimmed, VersionKey)
        THEN [st |-> [s1 EXCEPT !.inChart = FALSE, !.inRelease = FALSE],
              line |-> PatchedLine(line, newVer)]
        ELSE [st |-> s1, line |-> line]

\* a variant that rewrites whatever name is on record
NameMatchesAny(foundChartName, chartFullName) == TRUE

\* if foundChartName == chartFullName
NameMatches(foundChartName, chartFullName) == foundChartName = chartFullName

\* a variant whose anchor closes at a comment line too
AnchorLineHash(line, chartFullName, newVer, s) ==
    LET trimmed == TrimSpace(line)
        indent == IndentOf(line)
        closed == [s EXCEPT !.inAnchor = FALSE, !.inChart = FALSE, !.foundChartName = <<>>]
    IN  IF ~s.inAnchor /\ HasPrefix(trimmed, <<".">>) /\ Contains(trimmed, ":")
        THEN [st |-> [inAnchor |-> TRUE, inChart |-> FALSE, anchorIndent |-> indent,
                      foundChartName |-> <<>>],
              line |-> line]
        ELSE IF ~s.inAnchor
        THEN [st |-> s, line |-> line]
        ELSE IF indent <= s.anchorIndent /\ ~HasPrefix(trimmed, ChartKey)
        THEN [st |-> closed, line |-> line]
        ELSE IF IsBlockChart(trimmed)
        THEN [st |-> [s EXCEPT !.inChart = TRUE], line |-> line]
        ELSE IF ~s.inChart
        THEN [st |-> s, line |-> line]
        ELSE IF indent <= s.anchorIndent /\ ~HasPrefix(trimmed, NameKey)
                /\ ~HasPrefix(trimmed, VersionKey)
        THEN [st |-> [s EXCEPT !.inChart = FALSE], line |-> line]
        ELSE IF HasPrefix(trimmed, NameKey)
        THEN [st |-> [s EXCEPT !.foundChartName = AnchorNameVal(trimmed)], line |-> line]
        ELSE IF HasPrefix(trimmed, VersionKey) /\ NameMatches(s.foundChartName, chartFullName)
        THEN [st |-> closed, line |-> PatchedLine(line, newVer)]
        ELSE [st |-> s, line |-> line]

\* One iteration of the anchor loop; s holds inAnchor, inChart, anchorIndent, foundChartName.
AnchorLine(line, chartFullName, newVer, s) ==
    LET trimmed == TrimSpace(line)
        indent == IndentOf(line)
        closed == [s EXCEPT !.inAnchor = FALSE, !.inChart = FALSE, !.foundChartName = <<>>]
    IN  IF ~s.inAnchor /\ HasPrefix(trimmed, <<".">>) /\ Contains(trimmed, ":")
        THEN [st |-> [inAnchor |-> TRUE, inChart |-> FALSE, anchorIndent |-> indent,
                      foundChartName |-> <<>>],
              line |-> line]
        ELSE IF ~s.inAnchor
        THEN [st |-> s, line |-> line]
        ELSE IF indent <= s.anchorIndent /\ ~HasPrefix(trimmed, ChartKey)
                /\ ~HasPrefix(trimmed, <<"#">>)
        THEN [st |-> closed, line |-> line]
        ELSE IF IsBlockChart(trimmed)
        THEN [st |-> [s EXCEPT !.inChart = TRUE], line |-> line]
        ELSE IF ~s.inChart
        THEN [st |-> s, line |-> line]
        ELSE IF indent <= s.anchorIndent /\ ~HasPrefix(trimmed, NameKey)
                /\ ~HasPrefix(trimmed, VersionKey)
        THEN [st |-> [s EXCEPT !.inChart = FALSE], line |-> line]
        ELSE IF HasPrefix(trimmed, NameKey)
        THEN [st |-> [s EXCEPT !.foundChartName = AnchorNameVal(trimmed)], line |-> line]
        ELSE IF HasPrefix(trimmed, VersionKey) /\ NameMatches(s.foundChartName, chartFullName)
        THEN [st |-> closed, line |-> PatchedLine(line, newVer)]
        ELSE [st |-> s, line |-> line]

RelInit == [inRelease |-> FALSE, inChart |-> FALSE, chartIndent |-> 0]
AncInit == [inAnchor |-> FALSE, inChart |-> FALSE, anchorIndent |-> 0,
            foundChartName |-> <<>>]

(***************************************************************************)
(* removeTopLevelSection: one loop iteration on `line`; s holds skip and   *)
(* sectionIndent, keep tells whether the line is appended to out.          *)
(***************************************************************************)
RepositoriesKey == <<"r", "e", "p", "o", "s", "i", "t", "o", "r", "i", "e", "s">>
RegistriesKey == <<"r", "e", "g", "i", "s", "t", "r", "i", "e", "s">>

\* a variant that tests for an empty line before it tests skip
StripLineBlankFirst(line, sectionName, s) ==
    LET trimmed == TrimLeft(line, {" "})
        indent == Len(line) - Len(trimmed)
    IN  IF TrimSpace(line) = <<>>
        THEN [skip |-> s.skip, sectionIndent |-> s.sectionIndent, keep |-> FALSE]
        ELSE IF ~s.skip
        THEN IF HasPrefix(TrimSpace(line), sectionName \o <<":">>)
             THEN [skip |-> TRUE, sectionIndent |-> indent, keep |-> FALSE]
             ELSE [skip |-> FALSE, sectionIndent |-> s.sectionIndent, keep |-> TRUE]
        ELSE IF indent > s.sectionIndent
        THEN [skip |-> TRUE, sectionIndent |-> s.sectionIndent, keep |-> FALSE]
        ELSE [skip |-> FALSE, sectionIndent |-> s.sectionIndent, keep |-> TRUE]

\* a variant that, while skipping, compares the indent before it looks for a blank line
StripLineIndentFirst(line, sectionName, s) ==
    LET trimmed == TrimLeft(line, {" "})
        indent == Len(line) - Len(trimmed)
    IN  IF ~s.skip
        THEN IF HasPrefix(TrimSpace(line), sectionName \o <<":">>)
             THEN [skip |-> TRUE, sectionIndent |-> indent, keep |-> FALSE]
             ELSE [skip |-> FALSE, sectionIndent |-> s.sectionIndent, keep |-> TRUE]
        ELSE IF indent > s.sectionIndent
        THEN [skip |-> TRUE, sectionIndent |-> s.sectionIndent, keep |-> FALSE]
        ELSE [skip |-> FALSE, sectionIndent |-> s.sectionIndent, keep |-> TRUE]

StripLine(line, sectionName, s) ==
    LET trimmed == TrimLeft(line, {" "})
        indent == Len(line) - Len(trimmed)
    IN  IF ~s.skip
        THEN IF HasPrefix(TrimSpace(line), sectionName \o <<":">>)
             THEN [skip |-> TRUE, sectionIndent |-> indent, keep |-> FALSE]
             ELSE [skip |-> FALSE, sectionIndent |-> s.sectionIndent, keep |-> TRUE]
        ELSE IF TrimSpace(line) = <<>>
        THEN [skip |-> TRUE, sectionIndent |-> s.sectionIndent, keep |-> FALSE]
        ELSE IF indent > s.sectionIndent
        THEN [skip |-> TRUE, sectionIndent |-> s.sectionIndent, keep |-> FALSE]
        ELSE [skip |-> FALSE, sectionIndent |-> s.sectionIndent, keep |-> TRUE]

(***************************************************************************)
(* Input documents.  A document is a list of lines; the bytes handed to    *)
(* the program are Join of it.  Documents are built from release items,    *)
(* dot-prefixed anchors and plain top-level blocks, every version being    *)
(* "1" on disk.                                                            *)
(***************************************************************************)
MaxBlocks == 2

relA == <<"a">>
relB == <<"b">>
chartC == <<"r", "/", "c">>
chartX == <<"r", "/", "x">>
v1 == <<"1">>
v2 == <<"2">>
v3 == <<"3">>

Sp(n) == Repeat(" ", n)
LName(n) == Sp(2) \o DashName \o <<" ">> \o n
\*   - name: "a" #x
LNameQuoted(n) == Sp(2) \o DashName \o <<" ", DQ>> \o n \o <<DQ, " ", "#", "x">>
LChart(k) == Sp(k) \o ChartKey
LChartInline(k) == Sp(k) \o ChartKey \o <<" ">> \o chartC
LChartName(k, c) == Sp(k) \o NameKey \o <<" ">> \o c
\*     name: r/c # m
LChartNameC(k, c) == Sp(k) \o NameKey \o <<" ">> \o c \o <<" ", "#", " ", "m">>
LVer(k, tail) == Sp(k) \o VersionKey \o tail
LAnchor(n) == <<".">> \o n \o <<":">>
LKey(k, w) == Sp(k) \o w \o <<":">>
LBlank == <<>>
LComment == <<"#", " ", "n">>

\* the ways a version value is written after "version:"
TPlain(v) == <<" ">> \o v
TDouble(v) == <<" ", DQ>> \o v \o <<DQ>>
TSingle(v) == <<" ", "'">> \o v \o <<"'">>
TWide(v) == <<" ", " ", " ">> \o v
TPlainC(v) == <<" ">> \o v \o <<" ", "#", " ", "p">>
TDoubleC(v) == <<" ", DQ>> \o v \o <<DQ, " ", "#", " ", "p">>
TSingleC(v) == <<" ", "'">> \o v \o <<"'", " ", "#", " ", "p">>
\* version: 1 # d't       (an apostrophe in the comment)
TAposC(v) == <<" ">> \o v \o <<" ", "#", " ", "d", "'", "t">>
\* version:  "1"  # p     (two spaces around the value)
TWideDoubleC(v) == <<" ", " ", DQ>> \o v \o <<DQ, " ", " ", "#", " ", "p">>
Tails(v) == {TPlain(v), TDouble(v), TSingle(v), TWide(v), TPlainC(v), TDoubleC(v),
             TSingleC(v), TAposC(v), TWideDoubleC(v)}

RelItem(n) == <<LName(n), LChart(4), LChartName(6, chartC), LVer(6, TPlain(v1))>>
RelBlank(n) == <<LName(n), LChart(4), LBlank, LVer(6, TPlain(v1))>>
RelInline(n) == <<LName(n), LChartInline(4)>>
RelTwo(n) == <<LName(n), LChart(4), LVer(6, TPlain(v1)), LVer(6, TPlain(v1))>>
AnchorItem(a, c) == <<LAnchor(a), LChart(2), LChartName(4, c), LVer(4, TPlain(v1))>>
AnchorVerFirst(a, c) == <<LAnchor(a), LChart(2), LVer(4, TPlain(v1)), LChartName(4, c)>>
AnchorSibling(a, c) ==
    <<LAnchor(a), LChart(2), LChartName(4, c), LKey(2, <<"o">>), LVer(4, TPlain(v1))>>
AnchorComment(a, c) ==
    <<LAnchor(a), LComment, LChart(2), LChartName(4, c), LVer(4, TPlain(v1))>>
\* a comment at column 0 between chart: and name:
AnchorCommentIn(a, c) ==
    <<LAnchor(a), LChart(2), LComment, LChartName(4, c), LVer(4, TPlain(v1))>>
AnchorBlank(a, c) ==
    <<LAnchor(a), LBlank, LChart(2), LChartName(4, c), LVer(4, TPlain(v1))>>
\* an anchor whose chart is r/x, with a name: r/c and a version: under the sibling key o:
AnchorStray(a, c) ==
    <<LAnchor(a), LChart(2), LChartName(4, chartX), LKey(2, <<"o">>), LChartName(4, c),
      LVer(4, TPlain(v1))>>
\* an anchor with a one-line chart: and a version: key of its own
AnchorInline(a) == <<LAnchor(a), LChartInline(2), LVer(2, TPlain(v1))>>
TopChart == <<LKey(0, <<"o">>), LChart(2), LVer(4, TPlain(v1))>>
\* an anchor .p of chart r/c that holds a nested key .q, whose chart r/c is followed by a
\* comment at the indent of .q and by a key o: with a name: r/x and a chart: of its own
AnchorNested ==
    <<LAnchor(<<"p">>), LChart(2), LChartName(4, chartC), LVer(4, TPlain(v1)),
      Sp(2) \o LAnchor(<<"q">>), LChart(4), LChartName(6, chartC), Sp(2) \o LComment,
      LKey(4, <<"o">>), LChartName(6, chartX), LChart(6), LVer(8, TPlain(v1))>>

Items ==
    {RelItem(relA), RelItem(relB), RelBlank(relA), RelInline(relA), RelTwo(relA),
     AnchorItem(<<"p">>, chartC), AnchorItem(<<"q">>, chartX),
     AnchorVerFirst(<<"p">>, chartC), AnchorSibling(<<"p">>, chartC),
     AnchorComment(<<"p">>, chartC), AnchorBlank(<<"p">>, chartC),
     AnchorCommentIn(<<"p">>, chartC), AnchorStray(<<"p">>, chartC),
     AnchorInline(<<"p">>), TopChart}

\* leading whitespace with tabs in it
TabIndents == {<<"\t", "\t">>, <<" ", " ", " ", " ", "\t">>}

RECURSIVE BlockDocs(_)
BlockDocs(n) ==
    IF n = 0 THEN {<<>>}
    ELSE LET prev == BlockDocs(n - 1)
         IN  prev \cup {d \o it : d \in prev, it \in Items}

\* one release item, or one anchor, with each way of writing the names and the value
StyleDocs ==
    {<<nl, LChart(4), LVer(6, t)>> : nl \in {LName(relA), LNameQuoted(relA)}, t \in Tails(v1)}
    \cup {<<LName(relA), LChart(4), ws \o VersionKey \o TPlain(v1)>> : ws \in TabIndents}
    \cup {<<LAnchor(<<"p">>), LChart(2), LChartName(4, chartC), ws \o VersionKey \o TPlain(v1)>> :
            ws \in TabIndents}
    \cup {<<LAnchor(<<"p">>), LChart(2), nl, LVer(4, t)>> :
            nl \in {LChartName(4, chartC), LChartNameC(4, chartC)}, t \in Tails(v1)}
    \cup {AnchorNested}
    \* two items a and an item b whose chart: blocks hold no version: line
    \cup {<<LName(relA), LChart(4), LChartName(6, chartC),
            LName(relA), LChart(4), LChartName(6, chartC), LName(relB)>>}
    \* a line of eight spaces between chart: and version:
    \cup {<<LName(relA), LChart(4), Sp(8), LVer(6, TPlain(v1))>>}

Docs == BlockDocs(MaxBlocks) \cup StyleDocs

NoMap == [k \in {} |-> <<>>]
MapPairs ==
    {[rel |-> NoMap, chart |-> NoMap],
     [rel |-> relA :> v2, chart |-> NoMap],
     [rel |-> relA :> v1, chart |-> chartC :> v1],
     [rel |-> NoMap, chart |-> chartC :> v2],
     [rel |-> relA :> v2 @@ relB :> v3, chart |-> NoMap],
     [rel |-> NoMap, chart |-> chartC :> v2 @@ chartX :> v3],
     [rel |-> relA :> v2, chart |-> chartC :> v3]}

(***************************************************************************)
(* updateFileText as a state machine: one step per loop iteration.         *)
(***************************************************************************)
VARIABLES
    original,         \* the bytes passed in
    versionMap,       \* release name -> desired version
    chartVersionMap,  \* chart full name -> desired version
    pc,               \* where updateFileText stands
    lines,            \* the line buffer
    relTodo,          \* keys of versionMap the range loop has not visited yet
    chartTodo,        \* keys of chartVersionMap not visited yet
    key,              \* relName / chartFullName of the running pass
    i,                \* index of the inner loop (0-based, as in the code)
    rs,               \* inRelease, inChart, chartIndent
    as,               \* inAnchor, inChart, anchorIndent, foundChartName
    out,              \* the returned text
    passStart,        \* history: the buffer when the running pass began
    nameAt,           \* history: the line (1-based) the open scope took its name from, or 0
    edits,            \* history: the rewrites made so far
    \* removeTopLevelSection
    sInput,           \* the bytes passed in
    section,          \* the section name passed in
    sPc,              \* where removeTopLevelSection stands
    sLines,           \* lines
    sOut,             \* out: the lines kept so far
    skip,
    sectionIndent,
    sI,               \* index of the loop (0-based)
    stripped          \* the returned bytes

VARIABLES
    \* main and its environment
    mPc,              \* where main stands
    showVersion,      \* -version
    inplace,          \* -inplace
    fs,               \* the files: path -> [exists, bytes]
    repoCfg,          \* the helm repository config: [ok, names]
    idxCache,         \* repo name -> [ok, entries]: the cached <name>-index.yaml files
    writeOk,          \* whether os.WriteFile will succeed
    indexes,          \* result of loadIndexes
    data,             \* bytes returned by os.ReadFile
    processed,        \* the copy handed to yaml.Unmarshal
    hw,               \* hw.Releases
    exportTags,       \* the list printed as HELMWAVE_TAGS
    exitCode,         \* -1 while running, then the exit status
    writes,           \* history: the os.WriteFile calls made, [path, bytes, ok]
    \* checkAppVersion
    appPc,            \* where checkAppVersion stands
    appRelease,       \* release: [Chart |-> [Version]]
    appVersions,      \* versions: the index entries of the chart, [Version, AppVersion]
    importanceLabel   \* the label printed, "" when none was printed

mvars == <<mPc, showVersion, inplace, fs, repoCfg, idxCache, writeOk, indexes,
           data, processed, hw, exportTags, exitCode, writes>>

avars == <<appPc, appRelease, appVersions, importanceLabel>>

\* checkAppVersion is not running
AppIdle ==
    /\ appPc = "idle"
    /\ appRelease = [Chart |-> [Version |-> <<>>]]
    /\ appVersions = <<>>
    /\ importanceLabel = ""

NoFile == [exists |-> FALSE, bytes |-> <<>>]

\* main is not running
MainIdle ==
    /\ mPc = "idle"
    /\ showVersion = FALSE
    /\ inplace = FALSE
    /\ fs = <<>>
    /\ repoCfg = [ok |-> FALSE, names |-> <<>>]
    /\ idxCache = <<>>
    /\ writeOk = FALSE
    /\ indexes = <<>>
    /\ data = <<>>
    /\ processed = <<>>
    /\ hw = <<>>
    /\ exportTags = <<>>
    /\ exitCode = -1
    /\ writes = <<>>

uvars == <<original, versionMap, chartVersionMap, pc, lines, relTodo, chartTodo, key, i,
           rs, as, out, passStart, nameAt, edits>>

svars == <<sInput, section, sPc, sLines, sOut, skip, sectionIndent, sI, stripped>>

vars == <<uvars, svars, mvars, avars>>

inputs == <<original, versionMap, chartVersionMap>>

\* removeTopLevelSection is not running
StripIdle ==
    /\ sInput = <<>>
    /\ section = <<>>
    /\ sPc = "idle"
    /\ sLines = <<>>
    /\ sOut = <<>>
    /\ skip = FALSE
    /\ sectionIndent = 0
    /\ sI = 0
    /\ stripped = <<>>

Init ==
    /\ MainIdle
    /\ StripIdle
    /\ AppIdle
    /\ \E d \in Docs, m \in MapPairs :
          /\ original = Join(d)
          /\ versionMap = m.rel
          /\ chartVersionMap = m.chart
    /\ pc = "call"
    /\ lines = <<>>
    /\ relTodo = {}
    /\ chartTodo = {}
    /\ key = <<>>
    /\ i = 0
    /\ rs = RelInit
    /\ as = AncInit
    /\ out = <<>>
    /\ passStart = <<>>
    /\ nameAt = 0
    /\ edits = {}

\* lines := strings.Split(text, "\n")
EnterUpdate ==
    /\ pc = "call"
    /\ lines' = Split(original)
    /\ relTodo' = DOMAIN versionMap
    /\ chartTodo' = DOMAIN chartVersionMap
    /\ pc' = "releases"
    /\ UNCHANGED <<mvars, avars, svars, inputs, key, i, rs, as, out, passStart, nameAt, edits>>

\* for relName, newVer := range versionMap  (Go visits the keys in any order)
RangeRelease ==
    /\ pc = "releases"
    /\ \E k \in relTodo :
          /\ key' = k
          /\ relTodo' = relTodo \ {k}
    /\ rs' = RelInit
    /\ i' = 0
    /\ passStart' = lines
    /\ nameAt' = 0
    /\ pc' = "relScan"
    /\ UNCHANGED <<mvars, avars, svars, inputs, lines, chartTodo, as, out, edits>>

\* a variant that passes over blank lines, as removeTopLevelSection does while skipping
ReleaseIterSkipsBlank ==
    /\ pc = "relScan"
    /\ i < Len(lines)
    /\ LET r == IF TrimSpace(lines[i + 1]) = <<>>
                THEN [st |-> rs, line |-> lines[i + 1]]
                ELSE ReleaseLine(lines[i + 1], key, versionMap[key], rs)
       IN  /\ lines' = [lines EXCEPT ![i + 1] = r.line]
           /\ rs' = r.st
           /\ nameAt' = IF ~r.st.inRelease THEN 0
                         ELSE IF HasPrefix(TrimSpace(lines[i + 1]), DashName) THEN i + 1
                         ELSE nameAt
           /\ edits' = IF r.line = lines[i + 1] THEN edits
                        ELSE edits \cup {[pass |-> "release", key |-> key, at |-> i + 1,
                                          name |-> nameAt]}
    /\ i' = i + 1
    /\ UNCHANGED <<mvars, avars, svars, inputs, pc, relTodo, chartTodo, key, as, out, passStart>>

\* a variant whose "- name:" lines leave the Chart flag as it is
ReleaseIterKeepsChart ==
    /\ pc = "relScan"
    /\ i < Len(lines)
    /\ LET r == ReleaseLine(lines[i + 1], key, versionMap[key], rs)
       IN  /\ lines' = [lines EXCEPT ![i + 1] = r.line]
           /\ rs' = IF HasPrefix(TrimSpace(lines[i + 1]), DashName)
                     THEN [r.st EXCEPT !.inChart = rs.inChart]
                     ELSE r.st
           /\ nameAt' = IF ~r.st.inRelease THEN 0
                         ELSE IF HasPrefix(TrimSpace(lines[i + 1]), DashName) THEN i + 1
                         ELSE nameAt
           /\ edits' = IF r.line = lines[i + 1] THEN edits
                        ELSE edits \cup {[pass |-> "release", key |-> key, at |-> i + 1,
                                          name |-> nameAt]}
    /\ i' = i + 1
    /\ UNCHANGED <<mvars, avars, svars, inputs, pc, relTodo, chartTodo, key, as, out, passStart>>

\* a variant whose scopes stay open after a version: line has been handled
ReleaseIterStays ==
    /\ pc = "relScan"
    /\ i < Len(lines)
    /\ LET r == ReleaseLine(lines[i + 1], key, versionMap[key], rs)
       IN  /\ lines' = [lines EXCEPT ![i + 1] = r.line]
           /\ rs' = IF rs.inChart /\ HasPrefix(TrimSpace(lines[i + 1]), VersionKey)
                     THEN rs ELSE r.st
           /\ nameAt' = IF ~rs'.inRelease THEN 0
                         ELSE IF HasPrefix(TrimSpace(lines[i + 1]), DashName) THEN i + 1
                         ELSE nameAt
           /\ edits' = IF r.line = lines[i + 1] THEN edits
                        ELSE edits \cup {[pass |-> "release", key |-> key, at |-> i + 1,
                                          name |-> nameAt]}
    /\ i' = i + 1
    /\ UNCHANGED <<mvars, avars, svars, inputs, pc, relTodo, chartTodo, key, as, out, passStart>>

\* one iteration of  for i := 0; i < len(lines); i++  in the release pass
\* a variant that leaves the scan once it has rewritten a line
ReleaseIterBreaks ==
    /\ pc = "relScan"
    /\ i < Len(lines)
    /\ LET r == ReleaseLine(lines[i + 1], key, versionMap[key], rs)
       IN  /\ lines' = [lines EXCEPT ![i + 1] = r.line]
           /\ rs' = r.st
           /\ nameAt' = IF ~r.st.inRelease THEN 0
                         ELSE IF HasPrefix(TrimSpace(lines[i + 1]), DashName) THEN i + 1
                         ELSE nameAt
           /\ edits' = IF r.line = lines[i + 1] THEN edits
                        ELSE edits \cup {[pass |-> "release", key |-> key, at |-> i + 1,
                                          name |-> nameAt]}
           /\ i' = IF r.line = lines[i + 1] THEN i + 1 ELSE Len(lines)
    /\ UNCHANGED <<mvars, avars, svars, inputs, pc, relTodo, chartTodo, key, as, out, passStart>>

ReleaseIter ==
    /\ pc = "relScan"
    /\ i < Len(lines)
    /\ LET r == ReleaseLine(lines[i + 1], key, versionMap[key], rs)
       IN  /\ lines' = [lines EXCEPT ![i + 1] = r.line]
           /\ rs' = r.st
           /\ nameAt' = IF ~r.st.inRelease THEN 0
                         ELSE IF HasPrefix(TrimSpace(lines[i + 1]), DashName) THEN i + 1
                         ELSE nameAt
           /\ edits' = IF r.line = lines[i + 1] THEN edits
                        ELSE edits \cup {[pass |-> "release", key |-> key, at |-> i + 1,
                                          name |-> nameAt]}
    /\ i' = i + 1
    /\ UNCHANGED <<mvars, avars, svars, inputs, pc, relTodo, chartTodo, key, as, out, passStart>>

ReleaseEnd ==
    /\ pc = "relScan"
    /\ i >= Len(lines)
    /\ pc' = "releases"
    /\ UNCHANGED <<mvars, avars, svars, inputs, lines, relTodo, chartTodo, key, i, rs, as, out, passStart, nameAt, edits>>

ReleasesDone ==
    /\ pc = "releases"
    /\ relTodo = {}
    /\ pc' = "anchors"
    /\ UNCHANGED <<mvars, avars, svars, inputs, lines, relTodo, chartTodo, key, i, rs, as, out, passStart, nameAt, edits>>

\* a variant whose pass starts from the lines of the original text
RangeAnchorFresh ==
    /\ pc = "anchors"
    /\ \E k \in chartTodo :
          /\ key' = k
          /\ chartTodo' = chartTodo \ {k}
    /\ as' = AncInit
    /\ i' = 0
    /\ lines' = Split(original)
    /\ passStart' = Split(original)
    /\ nameAt' = 0
    /\ pc' = "ancScan"
    /\ UNCHANGED <<mvars, avars, svars, inputs, relTodo, rs, out, edits>>

\* for chartFullName, newVer := range chartVersionMap
RangeAnchor ==
    /\ pc = "anchors"
    /\ \E k \in chartTodo :
          /\ key' = k
          /\ chartTodo' = chartTodo \ {k}
    /\ as' = AncInit
    /\ i' = 0
    /\ passStart' = lines
    /\ nameAt' = 0
    /\ pc' = "ancScan"
    /\ UNCHANGED <<mvars, avars, svars, inputs, lines, relTodo, rs, out, edits>>

AnchorIter ==
    /\ pc = "ancScan"
    /\ i < Len(lines)
    /\ LET r == AnchorLine(lines[i + 1], key, chartVersionMap[key], as)
       IN  /\ lines' = [lines EXCEPT ![i + 1] = r.line]
           /\ as' = r.st
           /\ nameAt' = IF ~r.st.inAnchor \/ ~as.inAnchor THEN 0
                         ELSE IF as.inChart /\ HasPrefix(TrimSpace(lines[i + 1]), NameKey)
                         THEN i + 1
                         ELSE nameAt
           /\ edits' = IF r.line = lines[i + 1] THEN edits
                        ELSE edits \cup {[pass |-> "anchor", key |-> key, at |-> i + 1,
                                          name |-> nameAt]}
    /\ i' = i + 1
    /\ UNCHANGED <<mvars, avars, svars, inputs, pc, relTodo, chartTodo, key, rs, out, passStart>>

AnchorEnd ==
    /\ pc = "ancScan"
    /\ i >= Len(lines)
    /\ pc' = "anchors"
    /\ UNCHANGED <<mvars, avars, svars, inputs, lines, relTodo, chartTodo, key, i, rs, as, out, passStart, nameAt, edits>>

\* return strings.Join(lines, "\n")
Return ==
    /\ pc = "anchors"
    /\ chartTodo = {}
    /\ out' = Join(lines)
    /\ pc' = "done"
    /\ UNCHANGED <<mvars, avars, svars, inputs, lines, relTodo, chartTodo, key, i, rs, as, passStart, nameAt, edits>>

Next ==
    \/ EnterUpdate
    \/ RangeRelease
    \/ ReleaseIter
    \/ ReleaseEnd
    \/ ReleasesDone
    \/ RangeAnchor
    \/ AnchorIter
    \/ AnchorEnd
    \/ Return

Spec == Init /\ [][Next]_vars

\* The loops of updateFileText run in one goroutine that nothing interrupts: a step that
\* can be taken is taken.  For EnterUpdate, ReleaseIter and AnchorIter weak fairness is
\* written out with the condition under which the step can be taken.
SpecFair ==
    /\ Init /\ [][Next]_vars
    /\ WF_vars(RangeRelease) /\ WF_vars(ReleaseEnd) /\ WF_vars(ReleasesDone)
    /\ WF_vars(RangeAnchor) /\ WF_vars(AnchorEnd) /\ WF_vars(Return)
    /\ ([]<>(pc # "call") \/ []<><<EnterUpdate>>_vars)
    /\ ([]<>~(pc = "relScan" /\ i < Len(lines)) \/ []<><<ReleaseIter>>_vars)
    /\ ([]<>~(pc = "ancScan" /\ i < Len(lines)) \/ []<><<AnchorIter>>_vars)

(***************************************************************************)
(* removeTopLevelSection as a state machine, on texts of a few lines.      *)
(***************************************************************************)
MaxStripLines == 4

StripPool ==
    {RepositoriesKey \o <<":">>,                      \* repositories:
     Sp(2) \o RepositoriesKey \o <<":">>,             \*   repositories:
     RegistriesKey \o <<":">>,                        \* registries:
     <<"r", "e", "l", ":">>,                          \* rel:
     Sp(2) \o <<"-", " ", "x">>,                      \*   - x
     Sp(4) \o <<"y">>,                                \*     y
     <<" ">>,                                         \* a line of one space
     <<>>}                                            \* an empty line

RECURSIVE StripDocs(_)
StripDocs(n) ==
    IF n = 0 THEN {<<>>}
    ELSE LET prev == StripDocs(n - 1)
         IN  prev \cup {d \o <<l>> : d \in prev, l \in StripPool}

\* updateFileText is not running
UpdateIdle ==
    /\ original = <<>>
    /\ versionMap = NoMap
    /\ chartVersionMap = NoMap
    /\ pc = "idle"
    /\ lines = <<>>
    /\ relTodo = {}
    /\ chartTodo = {}
    /\ key = <<>>
    /\ i = 0
    /\ rs = RelInit
    /\ as = AncInit
    /\ out = <<>>
    /\ passStart = <<>>
    /\ nameAt = 0
    /\ edits = {}

InitStrip ==
    /\ MainIdle
    /\ UpdateIdle
    /\ AppIdle
    /\ \E d \in StripDocs(MaxStripLines) : sInput = Join(d)
    /\ section \in {RepositoriesKey, RegistriesKey}
    /\ sPc = "call"
    /\ sLines = <<>>
    /\ sOut = <<>>
    /\ skip = FALSE
    /\ sectionIndent = 0
    /\ sI = 0
    /\ stripped = <<>>

\* lines := strings.Split(text, "\n"); skip := false; sectionIndent := 0
StripEnter ==
    /\ sPc = "call"
    /\ sLines' = Split(sInput)
    /\ sOut' = <<>>
    /\ skip' = FALSE
    /\ sectionIndent' = 0
    /\ sI' = 0
    /\ sPc' = "scan"
    /\ UNCHANGED <<mvars, avars, uvars, sInput, section, stripped>>

\* one iteration of  for i := 0; i < len(lines); i++
StripIter ==
    /\ sPc = "scan"
    /\ sI < Len(sLines)
    /\ LET r == StripLine(sLines[sI + 1], section,
                          [skip |-> skip, sectionIndent |-> sectionIndent])
       IN  /\ skip' = r.skip
           /\ sectionIndent' = r.sectionIndent
           /\ sOut' = IF r.keep THEN Append(sOut, sLines[sI + 1]) ELSE sOut
    /\ sI' = sI + 1
    /\ UNCHANGED <<mvars, avars, uvars, sInput, section, sPc, sLines, stripped>>

\* return []byte(strings.Join(out, "\n"))
StripReturn ==
    /\ sPc = "scan"
    /\ sI >= Len(sLines)
    /\ stripped' = Join(sOut)
    /\ sPc' = "done"
    /\ UNCHANGED <<mvars, avars, uvars, sInput, section, sLines, sOut, skip, sectionIndent, sI>>

NextStrip ==
    \/ StripEnter
    \/ StripIter
    \/ StripReturn

SpecStrip == InitStrip /\ [][NextStrip]_vars

(***************************************************************************)
(* helpers.go and the comparator (loadIndexes, processReleases and the two *)
(* build*Map functions).  A release is [Name, Chart |-> [Name, Version],   *)
(* Tags]; an index is a function from chart name to its list of versions,  *)
(* newest first.                                                           *)
(***************************************************************************)
NoupdateTag == <<"n", "o", "u", "p", "d", "a", "t", "e">>

UpperCase == <<"A", "B", "C", "D", "E", "F", "G", "H", "I", "J", "K", "L", "M",
               "N", "O", "P", "Q", "R", "S", "T", "U", "V", "W", "X", "Y", "Z">>
LowerCase == <<"a", "b", "c", "d", "e", "f", "g", "h", "i", "j", "k", "l", "m",
               "n", "o", "p", "q", "r", "s", "t", "u", "v", "w", "x", "y", "z">>

\* simple case folding of one byte
Fold(c) ==
    IF \E k \in 1..26 : UpperCase[k] = c
    THEN LowerCase[CHOOSE k \in 1..26 : UpperCase[k] = c]
    ELSE c

\* strings.EqualFold on ASCII
EqualFold(s, t) == Len(s) = Len(t) /\ \A k \in 1..Len(s) : Fold(s[k]) = Fold(t[k])

\* a variant that compares the tag as written
hasTagExact(tags, want) == \E k \in 1..Len(tags) : tags[k] = want

hasTag(tags, want) ==
    \E k \in 1..Len(tags) : EqualFold(TrimSpace(tags[k]), TrimSpace(want))

\* strings.SplitN(name, "/", 2)
SplitN2(name) ==
    LET k == Index(name, "/")
    IN  IF k < 0 THEN <<name>>
        ELSE <<SubSeq(name, 1, k), SubSeq(name, k + 2, Len(name))>>

\* a variant that takes the index entry's version as it is written
NewChartVersionRaw(release, ixs) ==
    LET parts == SplitN2(release.Chart.Name)
        repoName == parts[1]
        chartName == parts[2]
    IN  IF hasTag(release.Tags, NoupdateTag) THEN release.Chart.Version
        ELSE IF release.Chart.Name = <<>> THEN release.Chart.Version
        ELSE IF Len(parts) # 2 THEN release.Chart.Version
        ELSE IF repoName \notin DOMAIN ixs THEN release.Chart.Version
        ELSE IF chartName \notin DOMAIN ixs[repoName]
                \/ Len(ixs[repoName][chartName]) = 0
        THEN release.Chart.Version
        ELSE IF release.Chart.Version = <<>> THEN release.Chart.Version
        ELSE ixs[repoName][chartName][1]

\* the version processReleases leaves in hw.Releases[id].Chart.Version
NewChartVersion(release, ixs) ==
    LET parts == SplitN2(release.Chart.Name)
        repoName == parts[1]
        chartName == parts[2]
    IN  IF hasTag(release.Tags, NoupdateTag) THEN release.Chart.Version
        ELSE IF release.Chart.Name = <<>> THEN release.Chart.Version
        ELSE IF Len(parts) # 2 THEN release.Chart.Version
        ELSE IF repoName \notin DOMAIN ixs THEN release.Chart.Version
        ELSE IF chartName \notin DOMAIN ixs[repoName]
                \/ Len(ixs[repoName][chartName]) = 0
        THEN release.Chart.Version
        ELSE IF release.Chart.Version = <<>> THEN release.Chart.Version
        ELSE TrimPrefix(ixs[repoName][chartName][1], <<"v">>)

\* hw.Releases after processReleases
processReleases(releases, ixs) ==
    [id \in 1..Len(releases) |->
        [releases[id] EXCEPT !.Chart.Version = NewChartVersion(releases[id], ixs)]]

\* the tags processReleases collects: the last tag of every release it updated
RECURSIVE helmwaveTags(_, _)
helmwaveTags(releases, ixs) ==
    IF releases = <<>> THEN <<>>
    ELSE LET release == Head(releases)
             rest == helmwaveTags(Tail(releases), ixs)
         IN  IF NewChartVersion(release, ixs) # release.Chart.Version
                /\ Len(release.Tags) > 0
             THEN <<TrimSpace(release.Tags[Len(release.Tags)])>> \o rest
             ELSE rest

\* "remove duplicates while preserving order", empty tags dropped
RECURSIVE Unique(_)
Unique(ts) ==
    IF ts = <<>> THEN <<>>
    ELSE LET t == ts[Len(ts)]
             front == SubSeq(ts, 1, Len(ts) - 1)
         IN  IF t = <<>> \/ \E k \in 1..Len(front) : front[k] = t
             THEN Unique(front)
             ELSE Append(Unique(front), t)

\* a variant that lets the first release of a name win
RECURSIVE buildVersionMapFirst(_)
buildVersionMapFirst(releases) ==
    IF releases = <<>> THEN NoMap
    ELSE LET r == Head(releases)
             m == buildVersionMapFirst(Tail(releases))
         IN  IF r.Name = <<>> \/ hasTag(r.Tags, NoupdateTag) THEN m
             ELSE (r.Name :> r.Chart.Version) @@ m

\* for _, r := range hw.Releases: a later release of the same name overwrites the entry
RECURSIVE buildVersionMap(_)
buildVersionMap(releases) ==
    IF releases = <<>> THEN NoMap
    ELSE LET r == releases[Len(releases)]
             m == buildVersionMap(SubSeq(releases, 1, Len(releases) - 1))
         IN  IF r.Name = <<>> \/ hasTag(r.Tags, NoupdateTag) THEN m
             ELSE (r.Name :> r.Chart.Version) @@ m

RECURSIVE buildChartVersionMap(_)
buildChartVersionMap(releases) ==
    IF releases = <<>> THEN NoMap
    ELSE LET r == releases[Len(releases)]
             m == buildChartVersionMap(SubSeq(releases, 1, Len(releases) - 1))
         IN  IF r.Chart.Name = <<>> \/ hasTag(r.Tags, NoupdateTag) THEN m
             ELSE (r.Chart.Name :> r.Chart.Version) @@ m

(***************************************************************************)
(* yaml.Unmarshal(processed, &hw) on the documents used here: block        *)
(* mappings and sequences told apart by indentation, plain and quoted      *)
(* scalars, "# comment" tails, one-line flow sequences for tags:.  Keys    *)
(* that Helmwave does not declare (the dot-prefixed anchors) are ignored.  *)
(***************************************************************************)
ReleasesKey == <<"r", "e", "l", "e", "a", "s", "e", "s", ":">>
TagsKey == <<"t", "a", "g", "s", ":">>

YIgnorable(l) == TrimSpace(l) = <<>> \/ HasPrefix(TrimSpace(l), <<"#">>)

\* the text of a scalar: the " #..." tail cut off, then the surrounding quotes
YScalar(r0) ==
    LET r == TrimSpace(r0)
        k == Index(r, "#")
        v == IF k >= 0 THEN TrimSpace(SubSeq(r, 1, k)) ELSE r
    IN  IF Len(v) >= 2 /\ Head(v) \in Quotes /\ v[Len(v)] = Head(v)
        THEN SubSeq(v, 2, Len(v) - 1)
        ELSE v

\* the last line of the block that line h heads
YBlockEnd(ls, h) ==
    CHOOSE e \in h..Len(ls) :
        /\ \A k \in (h + 1)..e : YIgnorable(ls[k]) \/ IndentOf(ls[k]) > IndentOf(ls[h])
        /\ e = Len(ls) \/ ~(YIgnorable(ls[e + 1]) \/ IndentOf(ls[e + 1]) > IndentOf(ls[h]))

\* the lines of the block of h that sit at indent n and start with key kw
YKeys(ls, h, n, kw) ==
    {k \in (h + 1)..YBlockEnd(ls, h) :
        ~YIgnorable(ls[k]) /\ IndentOf(ls[k]) = n /\ HasPrefix(TrimSpace(ls[k]), kw)}

Min(S) == CHOOSE x \in S : \A y \in S : x <= y

RECURSIVE Sorted(_)
Sorted(S) == IF S = {} THEN <<>> ELSE <<Min(S)>> \o Sorted(S \ {Min(S)})

RECURSIVE SplitComma(_)
SplitComma(t) ==
    LET k == Index(t, ",")
    IN  IF k < 0 THEN <<t>>
        ELSE <<SubSeq(t, 1, k)>> \o SplitComma(SubSeq(t, k + 2, Len(t)))

\* [a, "b"] after tags:
YFlowSeq(r0) ==
    LET r == TrimSpace(r0)
        inner == TrimSpace(SubSeq(r, 2, Len(r) - 1))
        parts == SplitComma(inner)
    IN  IF inner = <<>> THEN <<>>
        ELSE [k \in 1..Len(parts) |-> YScalar(parts[k])]

\* the value of the first key kw among the lines ks, "" when there is none
YFirst(ls, ks, kw) ==
    IF ks = {} THEN <<>> ELSE YScalar(TrimPrefix(TrimSpace(ls[Min(ks)]), kw))

\* the Release that the sequence item headed by line h ("- name: ...") decodes to
YRelease(ls, h) ==
    LET n == IndentOf(ls[h]) + 2
        charts == {c \in YKeys(ls, h, n, ChartKey) : IsBlockChart(TrimSpace(ls[c]))}
        tags == YKeys(ls, h, n, TagsKey)
        c == Min(charts)
        body == {k \in (c + 1)..YBlockEnd(ls, c) : ~YIgnorable(ls[k])}
        cn == IF body = {} THEN 0 ELSE IndentOf(ls[Min(body)])
    IN  [Name |-> IF HasPrefix(TrimSpace(ls[h]), DashName)
                  THEN YScalar(TrimPrefix(TrimSpace(ls[h]), DashName))
                  ELSE <<>>,
         Chart |-> IF charts = {} THEN [Name |-> <<>>, Version |-> <<>>]
                   ELSE [Name |-> YFirst(ls, YKeys(ls, c, cn, NameKey), NameKey),
                         Version |-> YFirst(ls, YKeys(ls, c, cn, VersionKey), VersionKey)],
         Tags |-> IF tags = {} THEN <<>>
                  ELSE YFlowSeq(TrimPrefix(TrimSpace(ls[Min(tags)]), TagsKey))]

\* err != nil: a template expression where a value is expected, or a scalar where the
\* Chart struct is expected
YError(ls) ==
    \/ \E k \in 1..Len(ls) : ~YIgnorable(ls[k]) /\ Contains(ls[k], "{")
    \/ \E k \in 1..Len(ls) :
          /\ HasPrefix(TrimSpace(ls[k]), ChartKey)
          /\ ~IsBlockChart(TrimSpace(ls[k]))
          /\ \E h \in 1..k : ls[h] = ReleasesKey /\ k <= YBlockEnd(ls, h)

\* hw.Releases
Unmarshal(text) ==
    LET ls == Split(text)
        heads == {h \in 1..Len(ls) : ls[h] = ReleasesKey}
        h == Min(heads)
        first == {k \in (h + 1)..YBlockEnd(ls, h) : ~YIgnorable(ls[k])}
        items == {k \in first : IndentOf(ls[k]) = IndentOf(ls[Min(first)])
                                /\ HasPrefix(TrimSpace(ls[k]), <<"-", " ">>)}
        order == Sorted(items)
    IN  IF heads = {} THEN <<>>
        ELSE [k \in 1..Len(order) |-> YRelease(ls, order[k])]

(***************************************************************************)
(* The documents and environments of a run of main.  A document has an     *)
(* optional head (the repositories: and registries: sections with their    *)
(* template expressions), an optional anchor, and releases: with up to     *)
(* MaxReleases items.  The index of repository r lists chart c with        *)
(* versions v2, 1 and chart x with version 3.                              *)
(***************************************************************************)
MaxReleases == 2

Filename == <<"f">>
UpdatedSuffix == <<".", "u", "p", "d", "a", "t", "e", "d">>

LTags(t) == Sp(4) \o TagsKey \o <<" ">> \o t
TagNoupdate == <<"[", "n", "o", "u", "p", "d", "a", "t", "e", "]">>
TagFolded == <<"[", "t", ",", " ", "\"", " ", "N", "o", "U", "p", "d", "a", "t", "e", " ", "\"", "]">>
TagOther == <<"[", "t", "]">>
TagLast == <<"[", "t", ",", " ", "u", "]">>
LEmptyName == Sp(2) \o DashName \o <<" ", DQ, DQ>>
LTemplate == Sp(4) \o <<"n", "a", "m", "e", "s", "p", "a", "c", "e", ":", " ", "{", "{", " ", "n", " ", "}", "}">>

\* a release item: its "- name:" line, the chart block, then the lines `more`
MRelease(nameLine, c, verLines, more) ==
    <<nameLine, LChart(4), LChartName(6, c)>> \o verLines \o more

MainItems ==
    {MRelease(LName(relA), chartC, <<LVer(6, TPlain(v1))>>, <<>>),
     MRelease(LName(relA), chartC, <<LVer(6, TPlain(v1))>>, <<LTags(TagNoupdate)>>),
     MRelease(LName(relA), chartC, <<LVer(6, TDoubleC(v1))>>, <<LTags(TagFolded)>>),
     MRelease(LName(relA), chartC, <<LVer(6, TPlain(v2))>>, <<LTags(TagLast)>>),
     MRelease(LName(relA), chartC, <<>>, <<>>),
     MRelease(LName(relB), chartX, <<LVer(6, TPlain(v1))>>, <<LTags(TagOther)>>),
     MRelease(LName(relB), chartC, <<LVer(6, TPlain(v1))>>, <<LTags(TagNoupdate)>>),
     MRelease(LEmptyName, chartX, <<LVer(6, TPlain(v1))>>, <<>>),
     MRelease(LName(relB), chartX, <<LVer(6, TPlain(v1))>>, <<LTemplate>>)}

RECURSIVE MainItemSeqs(_)
MainItemSeqs(n) ==
    IF n = 0 THEN {<<>>}
    ELSE LET prev == MainItemSeqs(n - 1)
         IN  prev \cup {d \o it : d \in prev, it \in MainItems}

MainHead ==
    <<RepositoriesKey \o <<":">>,
      Sp(2) \o <<"-", " ", "n", "a", "m", "e", ":", " ", "r">>,
      Sp(4) \o <<"u", "r", "l", ":", " ", "{", "{", " ", "u", " ", "}", "}">>,
      <<>>,
      RegistriesKey \o <<":">>,
      Sp(2) \o <<"-", " ", "h", "o", "s", "t", ":", " ", "{", "{", " ", "h", " ", "}", "}">>>>

\* one release whose chart name has no repository part, names a chart the index does not
\* list, or names a repository that is not configured
OddCharts == {<<"c">>, <<"r", "/", "y">>, <<"u", "/", "c">>}

\* a release of a chart of repository r beside one of a chart of repository q
chartQ == <<"q", "/", "c">>
TwoRepos ==
    <<ReleasesKey>> \o MRelease(LName(relA), chartC, <<LVer(6, TPlain(v1))>>, <<>>)
                   \o MRelease(LName(relB), chartQ, <<LVer(6, TPlain(v1))>>, <<>>)

\* the documents of up to n items with head and anchor, and those of at most one item
\* with and without them
MainDocs(n) ==
    {MainHead \o AnchorItem(<<"p">>, chartC) \o <<ReleasesKey>> \o d : d \in MainItemSeqs(n)}
    \cup {<<ReleasesKey>> \o MRelease(LName(relA), c, <<LVer(6, TPlain(v1))>>, <<>>) :
            c \in OddCharts}
    \cup {TwoRepos}
    \cup {h \o a \o <<ReleasesKey>> \o d :
            h \in {<<>>, MainHead},
            a \in {<<>>, AnchorItem(<<"p">>, chartC)},
            d \in MainItemSeqs(1)}

IndexR == <<"c">> :> <<<<"v", "2">>, <<"1">>>> @@ <<"x">> :> <<<<"3">>>>
IndexQ == <<"c">> :> <<<<"3">>>>
NoIndex == [k \in {} |-> <<>>]

\* what os.ReadFile, repo.LoadFile, repo.LoadIndexFile and os.WriteFile will meet
PlainEnv ==
    [showVersion |-> FALSE, exists |-> TRUE, cfgOk |-> TRUE, idxOk |-> TRUE, writeOk |-> TRUE]

MainEnvs ==
    {PlainEnv,
     [showVersion |-> TRUE, exists |-> TRUE, cfgOk |-> TRUE, idxOk |-> TRUE, writeOk |-> TRUE],
     [showVersion |-> FALSE, exists |-> FALSE, cfgOk |-> TRUE, idxOk |-> TRUE, writeOk |-> TRUE],
     [showVersion |-> FALSE, exists |-> TRUE, cfgOk |-> FALSE, idxOk |-> TRUE, writeOk |-> TRUE],
     [showVersion |-> FALSE, exists |-> TRUE, cfgOk |-> TRUE, idxOk |-> FALSE, writeOk |-> TRUE],
     [showVersion |-> FALSE, exists |-> TRUE, cfgOk |-> TRUE, idxOk |-> TRUE, writeOk |-> FALSE]}

(***************************************************************************)
(* main as a state machine.  removeTopLevelSection and updateFileText run  *)
(* as the machines above, started by the actions that call them.           *)
(***************************************************************************)
Paths == {Filename, Filename \o UpdatedSuffix}

InitMain ==
    /\ UpdateIdle
    /\ StripIdle
    /\ AppIdle
    /\ mPc = "start"
    /\ \E d \in MainDocs(MaxReleases), e \in MainEnvs, inpl \in BOOLEAN, existed \in BOOLEAN :
          \* the longer documents run in the plain environment
          /\ (e # PlainEnv \/ inpl \/ existed) => d \in MainDocs(1)
          /\ inplace = inpl
          /\ showVersion = e.showVersion
          /\ fs = (Filename :> [exists |-> e.exists,
                                bytes |-> IF e.exists THEN Join(d) ELSE <<>>])
                  @@ (Filename \o UpdatedSuffix :> [exists |-> existed, bytes |-> <<>>])
          /\ repoCfg = [ok |-> e.cfgOk, names |-> IF e.cfgOk THEN <<<<"r">>, <<"q">>>> ELSE <<>>]
          /\ idxCache = (<<"r">> :> [ok |-> e.idxOk,
                                     entries |-> IF e.idxOk THEN IndexR ELSE NoIndex])
                        @@ (<<"q">> :> [ok |-> TRUE, entries |-> IndexQ])
          /\ writeOk = e.writeOk
    /\ indexes = <<>>
    /\ data = <<>>
    /\ processed = <<>>
    /\ hw = <<>>
    /\ exportTags = <<>>
    /\ exitCode = -1
    /\ writes = <<>>

menv == <<showVersion, inplace, repoCfg, idxCache, writeOk>>

\* a variant that logs the error and returns from main normally
FatalReturns ==
    /\ exitCode' = 0
    /\ mPc' = "exit"

\* log.Fatalf
Fatal ==
    /\ exitCode' = 1
    /\ mPc' = "exit"

\* flag.Parse(); if showVersion { fmt.Println(version); return }
ParseFlags ==
    /\ mPc = "start"
    /\ IF showVersion
       THEN exitCode' = 0 /\ mPc' = "exit"
       ELSE exitCode' = exitCode /\ mPc' = "load"
    /\ UNCHANGED <<uvars, svars, menv, avars, fs, indexes, data, processed, hw, exportTags, writes>>

\* a variant that gives up on every repository once one index file fails to load
LoadedIndexesAllOrNone(cfg, cache) ==
    IF \E k \in 1..Len(cfg.names) : ~cache[cfg.names[k]].ok
    THEN [n \in {} |-> <<>>]
    ELSE [n \in {cfg.names[k] : k \in 1..Len(cfg.names)} |-> cache[n].entries]

\* the map loadIndexes returns: the repositories whose index file could be loaded
LoadedIndexes(cfg, cache) ==
    [n \in {cfg.names[k] : k \in 1..Len(cfg.names)} \cap {m \in DOMAIN cache : cache[m].ok}
        |-> cache[n].entries]

\* indexes, err := loadIndexes(settings)
LoadIndexes ==
    /\ mPc = "load"
    /\ IF ~repoCfg.ok
       THEN Fatal /\ indexes' = indexes
       ELSE /\ indexes' = LoadedIndexes(repoCfg, idxCache)
            /\ mPc' = "read"
            /\ exitCode' = exitCode
    /\ UNCHANGED <<uvars, svars, menv, avars, fs, data, processed, hw, exportTags, writes>>

\* readHelmwave: os.ReadFile, then removeTopLevelSection(data, "repositories")
ReadFile ==
    /\ mPc = "read"
    /\ IF ~fs[Filename].exists
       THEN /\ Fatal
            /\ UNCHANGED <<data, sInput, section, sPc>>
       ELSE /\ data' = fs[Filename].bytes
            /\ sInput' = fs[Filename].bytes
            /\ section' = RepositoriesKey
            /\ sPc' = "call"
            /\ mPc' = "strip1"
            /\ exitCode' = exitCode
    /\ UNCHANGED <<uvars, menv, avars, fs, indexes, processed, hw, exportTags, writes>>
    /\ UNCHANGED <<sLines, sOut, skip, sectionIndent, sI, stripped>>

\* processed = removeTopLevelSection(processed, "registries")
StripRegistries ==
    /\ mPc = "strip1"
    /\ sPc = "done"
    /\ processed' = stripped
    /\ sInput' = stripped
    /\ section' = RegistriesKey
    /\ sPc' = "call"
    /\ mPc' = "strip2"
    /\ UNCHANGED <<uvars, menv, avars, fs, indexes, data, hw, exportTags, exitCode, writes>>
    /\ UNCHANGED <<sLines, sOut, skip, sectionIndent, sI, stripped>>

\* a variant that returns the copy made for the parser
ReadResultProcessed(read, parsed) == parsed

\* return data, hw, nil
ReadResult(read, parsed) == read

\* yaml.Unmarshal(processed, &hw) and the return from readHelmwave
ParseYaml ==
    /\ mPc = "strip2"
    /\ sPc = "done"
    /\ processed' = stripped
    /\ IF YError(Split(stripped))
       THEN Fatal /\ UNCHANGED <<data, hw>>
       ELSE /\ hw' = Unmarshal(stripped)
            /\ data' = ReadResult(data, stripped)
            /\ mPc' = "process"
            /\ exitCode' = exitCode
    /\ UNCHANGED <<uvars, svars, menv, avars, fs, indexes, exportTags, writes>>

\* processReleases(&hw, indexes)
ProcessReleases ==
    /\ mPc = "process"
    /\ hw' = processReleases(hw, indexes)
    /\ exportTags' = Unique(helmwaveTags(hw, indexes))
    /\ mPc' = "build"
    /\ UNCHANGED <<uvars, svars, menv, avars, fs, indexes, data, processed, exitCode, writes>>

\* versionMap := buildVersionMap(&hw); chartVersionMap := buildChartVersionMap(&hw);
\* out := updateFileText(data, versionMap, chartVersionMap)
CallUpdate ==
    /\ mPc = "build"
    /\ original' = data
    /\ versionMap' = buildVersionMap(hw)
    /\ chartVersionMap' = buildChartVersionMap(hw)
    /\ pc' = "call"
    /\ mPc' = "update"
    /\ UNCHANGED <<svars, menv, avars, fs, indexes, data, processed, hw, exportTags, exitCode, writes>>
    /\ UNCHANGED <<lines, relTodo, chartTodo, key, i, rs, as, out, passStart, nameAt, edits>>

\* a variant that always writes beside the input
OutFileBeside(name, inpl) == name \o UpdatedSuffix

\* outFile := filename + ".updated"; if inplace { outFile = filename }
OutFile(name, inpl) == IF inpl THEN name ELSE name \o UpdatedSuffix

\* writeOutput(outFile, out): os.WriteFile either stores the bytes, or fails and leaves
\* the file as it was or truncated
WriteOutput ==
    /\ mPc = "update"
    /\ pc = "done"
    /\ LET outFile == OutFile(Filename, inplace)
       IN  IF writeOk
           THEN /\ fs' = [fs EXCEPT ![outFile] = [exists |-> TRUE, bytes |-> out]]
                /\ writes' = Append(writes, [path |-> outFile, bytes |-> out, ok |-> TRUE])
                /\ exitCode' = 0
                /\ mPc' = "exit"
           ELSE /\ \/ fs' = fs
                   \/ fs' = [fs EXCEPT ![outFile] = [exists |-> TRUE, bytes |-> <<>>]]
                /\ writes' = Append(writes, [path |-> outFile, bytes |-> out, ok |-> FALSE])
                /\ Fatal
    /\ UNCHANGED <<uvars, svars, menv, avars, indexes, data, processed, hw, exportTags>>

NextMain ==
    \/ ParseFlags
    \/ LoadIndexes
    \/ ReadFile
    \/ StripRegistries
    \/ ParseYaml
    \/ ProcessReleases
    \/ CallUpdate
    \/ WriteOutput
    \/ NextStrip
    \/ Next

SpecMain == InitMain /\ [][NextMain]_vars

(***************************************************************************)
(* The structure of a document, read off its indentation (what the words   *)
(* "item", "block" and "value" of the properties below mean).              *)
(***************************************************************************)
Orig == Split(original)

IsVersion(l) == HasPrefix(TrimSpace(l), VersionKey)
IsItemHead(l) == HasPrefix(TrimSpace(l), DashName)
IsAnchorHead(l) == HasPrefix(TrimSpace(l), <<".">>) /\ Contains(TrimSpace(l), ":")
IsChartHead(l) == TrimSpace(l) = ChartKey
IsChartName(l) == HasPrefix(TrimSpace(l), NameKey)
Ignorable(l) == TrimSpace(l) = <<>> \/ HasPrefix(TrimSpace(l), <<"#">>)

\* the scalar written after keyword kw: trailing comment removed, then the quotes
Scalar(l, kw) ==
    LET r == TrimSpace(TrimPrefix(TrimSpace(l), kw))
        k == Index(r, "#")
        v == IF k >= 0 THEN TrimSpace(SubSeq(r, 1, k)) ELSE r
    IN  Trim(v, Quotes)

\* line j lies in the block that line h heads: everything between is indented deeper than h
Within(ls, h, j) ==
    /\ h < j
    /\ \A k \in (h + 1)..j : Ignorable(ls[k]) \/ IndentOf(ls[k]) > IndentOf(ls[h])

\* c heads a block chart: of the item that s heads, s being "- name: k"
ItemChart(ls, s, c, k) ==
    /\ IsItemHead(ls[s])
    /\ Scalar(ls[s], DashName) = k
    /\ Within(ls, s, c)
    /\ IsChartHead(ls[c])

\* c heads a block chart: of the anchor that a heads, and n is a name: line of that chart
AnchorChart(ls, a, c, n, k) ==
    /\ IsAnchorHead(ls[a])
    /\ Within(ls, a, c)
    /\ IsChartHead(ls[c])
    /\ Within(ls, c, n)
    /\ IsChartName(ls[n])
    /\ Scalar(ls[n], NameKey) = k

InReleaseChart(ls, j, k) ==
    \E s \in 1..j, c \in 1..j : ItemChart(ls, s, c, k) /\ Within(ls, c, j)

InAnchorChart(ls, j, k) ==
    \E a \in 1..j, c \in 1..j, n \in 1..Len(ls) :
        AnchorChart(ls, a, c, n, k) /\ Within(ls, c, j)

\* j is the first version: line of the block that c heads
FirstVersion(ls, c, j) ==
    /\ Within(ls, c, j)
    /\ IsVersion(ls[j])
    /\ \A m \in (c + 1)..(j - 1) : ~IsVersion(ls[m])

Changed == {j \in 1..Len(lines) : lines[j] # Orig[j]}

(***************************************************************************)
(* Properties of updateFileText.                                           *)
(***************************************************************************)
\* C1 (idempotence): when every desired version equals the value written on every
\* version: line of the document, the returned text is byte-identical to the input,
\* however the value is spaced, quoted or commented.
C1_Idempotence ==
    (/\ pc = "done"
     /\ \A j \in 1..Len(Orig) : IsVersion(Orig[j]) =>
            /\ \A k \in DOMAIN versionMap : versionMap[k] = Scalar(Orig[j], VersionKey)
            /\ \A k \in DOMAIN chartVersionMap :
                   chartVersionMap[k] = Scalar(Orig[j], VersionKey))
    => out = original

\* C2 (locality): a line differs between input and output only if it is a version: line
\* inside the chart: block of a release item named by a key of versionMap, or inside the
\* chart: block of an anchor whose chart name is a key of chartVersionMap.  (Stated for
\* documents indented with spaces.)
C2_Locality ==
    (pc = "done" /\ ~Contains(original, "\t")) =>
        \A j \in Changed :
            /\ IsVersion(Orig[j])
            /\ \/ \E k \in DOMAIN versionMap : InReleaseChart(Orig, j, k)
               \/ \E k \in DOMAIN chartVersionMap : InAnchorChart(Orig, j, k)

\* C3 (every occurrence): for every key k of versionMap and every item "- name: k" with
\* a block chart: that has a version: line beneath it, that line carries versionMap[k]
\* in the output.
C3_EveryOccurrence ==
    pc = "done" =>
        \A k \in DOMAIN versionMap :
            \A s \in 1..Len(Orig), c \in 1..Len(Orig), j \in 1..Len(Orig) :
                (ItemChart(Orig, s, c, k) /\ FirstVersion(Orig, c, j))
                => Scalar(lines[j], VersionKey) = versionMap[k]

\* the desired versions of the call
Desired ==
    {versionMap[k] : k \in DOMAIN versionMap}
    \cup {chartVersionMap[k] : k \in DOMAIN chartVersionMap}

\* C4 (anchor targeting, safety): an anchor pass for chart identity c rewrites a version:
\* line only if a name: line is on record for the anchor that is open, that line comes
\* before the version: line, and its value is c.
C4_AnchorTargeting ==
    \A e \in edits :
        e.pass = "anchor" =>
            /\ e.name \in 1..(e.at - 1)
            /\ IsChartName(lines[e.name])
            /\ Scalar(lines[e.name], NameKey) = e.key

\* an anchor's version: line was rewritten, and the version: line of an anchor whose
\* chart is not a key was left as it was
C4_Witness ==
    /\ pc = "done"
    /\ \E e \in edits : e.pass = "anchor"
    /\ chartX \notin DOMAIN chartVersionMap
    /\ \E j \in 1..Len(Orig) :
          /\ IsVersion(Orig[j])
          /\ lines[j] = Orig[j]
          /\ InAnchorChart(Orig, j, chartX)

\* j is the first version: line after the name: line n in the chart block that c heads
VersionAfterName(ls, c, n, j) ==
    /\ Within(ls, c, j)
    /\ IsVersion(ls[j])
    /\ n < j
    /\ \A m \in (n + 1)..(j - 1) : ~IsVersion(ls[m])

\* C5 (anchor targeting, completeness): for every key c of chartVersionMap and every
\* anchor with a block chart: that holds a name: line of value c followed by a version:
\* line, that version: line carries chartVersionMap[c] in the output.
C5_EveryAnchor ==
    pc = "done" =>
        \A k \in DOMAIN chartVersionMap :
            \A a \in 1..Len(Orig), c \in 1..Len(Orig), n \in 1..Len(Orig), j \in 1..Len(Orig) :
                (AnchorChart(Orig, a, c, n, k) /\ VersionAfterName(Orig, c, n, j))
                => Scalar(lines[j], VersionKey) = chartVersionMap[k]

\* line j now carries another value than the input had
NewValue(j) == Scalar(lines[j], VersionKey) # Scalar(Orig[j], VersionKey)

\* the positions (1-based) of the quotes around a double-quoted value
OpenQuote(l) == Index(l, DQ) + 1
CloseQuote(l) == OpenQuote(l) + 1 + Index(SubSeq(l, OpenQuote(l) + 1, Len(l)), DQ)

\* version: "<value>" # comment
DoubleQuotedWithComment(l) ==
    /\ IsVersion(l)
    /\ HasPrefix(AfterVersion(TrimSpace(l)), <<DQ>>)
    /\ Contains(SubSeq(l, OpenQuote(l) + 1, Len(l)), DQ)
    /\ HasPrefix(TrimSpace(SubSeq(l, CloseQuote(l) + 1, Len(l))), <<"#">>)

\* l with the characters between its quotes replaced by v
WithValue(l, v) == SubSeq(l, 1, OpenQuote(l)) \o v \o SubSeq(l, CloseQuote(l), Len(l))

\* C6 (quote and comment preservation): a version: line whose value was double-quoted
\* and followed by a comment, once rewritten to a new value, is the old line with only
\* the characters between the quotes replaced by that value.
C6_QuoteCommentKept ==
    \A j \in Changed :
        (DoubleQuotedWithComment(Orig[j]) /\ NewValue(j))
        => \E v \in Desired : lines[j] = WithValue(Orig[j], v)

\* the value after version: starts with a quote character of set q
ValueQuoted(l, q) ==
    LET after == AfterVersion(TrimSpace(l))
    IN  after # <<>> /\ Head(after) \in q

\* C7 (unquoted preservation): the value of a version: line rewritten to a new value is
\* in double quotes exactly if the original value was quoted.
C7_QuotedIffQuoted ==
    \A j \in Changed :
        NewValue(j) => (ValueQuoted(lines[j], {DQ}) <=> ValueQuoted(Orig[j], Quotes))

AbsentRelease(ls, k) ==
    ~\E s \in 1..Len(ls) : IsItemHead(ls[s]) /\ Scalar(ls[s], DashName) = k

AbsentChart(ls, k) ==
    ~\E a \in 1..Len(ls), c \in 1..Len(ls), n \in 1..Len(ls) : AnchorChart(ls, a, c, n, k)

\* C8 (absent key): the pass for a release name that no "- name:" line carries, or for a
\* chart identity that no name: line inside an anchor's chart: block carries, changes no
\* line; when every key is absent the output equals the input.
C8_AbsentKeyNoOp ==
    /\ (pc = "relScan" /\ AbsentRelease(passStart, key)) => lines = passStart
    /\ (pc = "ancScan" /\ AbsentChart(passStart, key)) => lines = passStart
    /\ (/\ pc = "done"
        /\ \A k \in DOMAIN versionMap : AbsentRelease(Orig, k)
        /\ \A k \in DOMAIN chartVersionMap : AbsentChart(Orig, k))
       => out = original

\* a release pass and an anchor pass have both rewritten a line
C9_Witness ==
    /\ pc = "done"
    /\ \E e \in edits : e.pass = "release"
    /\ \E e \in edits : e.pass = "anchor"

\* number of lines of a text: one more than it has newline bytes
LineCount(text) == Cardinality({k \in 1..Len(text) : text[k] = "\n"}) + 1

\* C9 (line count): the buffer keeps the number of lines of the input through every
\* pass, and the returned text has that many lines.
C9_LineCount ==
    /\ pc \notin {"call"} => Len(lines) = LineCount(original)
    /\ pc = "done" => LineCount(out) = LineCount(original)

(***************************************************************************)
(* Properties of removeTopLevelSection.                                    *)
(***************************************************************************)
SectionAbsent ==
    \A k \in 1..Len(Split(sInput)) :
        ~HasPrefix(TrimSpace(Split(sInput)[k]), section \o <<":">>)

\* C10 (absent section): when no line's trimmed form starts with the section name and a
\* colon, removeTopLevelSection returns its input byte for byte.
C10_AbsentSectionIdentity ==
    (sPc = "done" /\ SectionAbsent) => stripped = sInput

\* a text without the section, with an empty line, an indented line and another section
C10_Witness ==
    /\ sPc = "done"
    /\ SectionAbsent
    /\ section = RegistriesKey
    /\ \E k \in 1..Len(sLines) : sLines[k] = <<>>
    /\ \E k \in 1..Len(sLines) : IndentOf(sLines[k]) > 0
    /\ \E k \in 1..Len(sLines) : HasPrefix(sLines[k], RepositoriesKey)

\* the lines whose trimmed form starts with the section name and a colon
HeaderLines(ls) ==
    {k \in 1..Len(ls) : HasPrefix(TrimSpace(ls[k]), section \o <<":">>)}

\* e is the last line of the section that h heads: a line indented deeper than h, with
\* only empty or deeper lines between; h itself when no such line follows
SectionEnds(ls, h, e) ==
    /\ e \in h..Len(ls)
    /\ e = h \/ (TrimSpace(ls[e]) # <<>> /\ IndentOf(ls[e]) > IndentOf(ls[h]))
    /\ \A k \in (h + 1)..e : TrimSpace(ls[k]) = <<>> \/ IndentOf(ls[k]) > IndentOf(ls[h])

SectionEnd(ls, h) ==
    CHOOSE e \in h..Len(ls) :
        SectionEnds(ls, h, e) /\ \A f \in (e + 1)..Len(ls) : ~SectionEnds(ls, h, f)

\* ls without its lines h..e
Without(ls, h, e) ==
    [k \in 1..(Len(ls) - (e - h + 1)) |-> IF k < h THEN ls[k] ELSE ls[k + (e - h + 1)]]

\* C11 (present section): on a text with one header line of the section, the result is
\* the text without the lines from the header through the last following line indented
\* deeper than the header; every other line, also an empty line right after the section,
\* is kept, unchanged and in order.
C11_StripExact ==
    (sPc = "done" /\ Cardinality(HeaderLines(Split(sInput))) = 1)
    => LET ls == Split(sInput)
           h == CHOOSE k \in HeaderLines(ls) : TRUE
       IN  stripped = Join(Without(ls, h, SectionEnd(ls, h)))

IsInlineChart(l) == HasPrefix(TrimSpace(l), ChartKey) /\ TrimSpace(l) # ChartKey

\* C17 (inline chart): in either pass the step that scans a line sets the Chart flag or
\* moves the chart indent only if the line's trimmed form is exactly chart:, and it does
\* set the flag on such a line while the release (anchor) is open; a line that starts
\* with chart: and carries more does not set the flag and is not modified.
C17_InlineChart ==
    [][/\ (pc = "relScan" /\ i' = i + 1) =>
            /\ ((rs'.inChart /\ ~rs.inChart) \/ rs'.chartIndent # rs.chartIndent)
               => TrimSpace(lines[i + 1]) = ChartKey
            /\ (rs.inRelease /\ TrimSpace(lines[i + 1]) = ChartKey)
               => (rs'.inChart /\ rs'.chartIndent = IndentOf(lines[i + 1]))
            /\ IsInlineChart(lines[i + 1]) => ((rs'.inChart => rs.inChart) /\ lines' = lines)
       /\ (pc = "ancScan" /\ i' = i + 1) =>
            /\ (as'.inChart /\ ~as.inChart) => TrimSpace(lines[i + 1]) = ChartKey
            /\ (as.inAnchor /\ TrimSpace(lines[i + 1]) = ChartKey) => as'.inChart
            /\ IsInlineChart(lines[i + 1]) => ((as'.inChart => as.inChart) /\ lines' = lines)]_vars

\* the anchor pass has just scanned a one-line chart: inside an open anchor, in a
\* document whose release a, patched before, has a one-line chart: too
C17_Witness ==
    /\ pc = "ancScan"
    /\ i >= 1
    /\ IsInlineChart(lines[i])
    /\ as.inAnchor
    /\ ~as.inChart
    /\ relA \in DOMAIN versionMap
    /\ \E k \in 2..Len(lines) :
          /\ IsInlineChart(lines[k])
          /\ IsItemHead(lines[k - 1])
          /\ Scalar(lines[k - 1], DashName) = relA

\* C18 (pass ordering on one buffer): no release pass runs once the anchor passes have
\* begun; every pass starts on the buffer as the passes before it left it (between two
\* passes no step changes a line, and a pass changes no line ahead of its scan); the returned
\* text is the buffer after the last pass, and a line rewritten by a release pass and by
\* an anchor pass carries the anchor pass's value.
C18_PassOrder ==
    /\ [](/\ pc \in {"anchors", "ancScan", "done"} => relTodo = {}
          /\ pc \in {"relScan", "ancScan"} =>
                \A j \in 1..Len(lines) : j > i => lines[j] = passStart[j]
          /\ pc = "done" =>
                /\ out = Join(lines)
                /\ chartTodo = {}
                /\ \A e \in edits, f \in edits :
                      (e.pass = "release" /\ f.pass = "anchor" /\ e.at = f.at)
                      => Scalar(lines[e.at], VersionKey) = chartVersionMap[f.key])
    /\ [][(pc \in {"releases", "anchors"}) => (lines' = lines)]_vars

\* a line was rewritten by the pass of release a and then by the pass of chart r/c
C18_Witness ==
    /\ pc = "done"
    /\ \E e \in edits, f \in edits :
          /\ e.pass = "release"
          /\ f.pass = "anchor"
          /\ e.at = f.at
          /\ versionMap[e.key] # chartVersionMap[f.key]

\* the leading whitespace of a line
LeadingSpace(l) == SubSeq(l, 1, LeadCount(l, WhiteSpace))

\* C19 (indentation preservation): a rewritten version: line starts with the leading
\* whitespace of the original line, byte for byte, followed by "version: ".
C19_IndentKept ==
    \A j \in Changed :
        /\ LeadingSpace(lines[j]) = LeadingSpace(Orig[j])
        /\ HasPrefix(TrimLeft(lines[j], WhiteSpace), VersionOut)

\* C20 (release scope closes by indent): a release pass rewrites a version: line only
\* inside the item whose "- name:" line opened the scope: every line from that line
\* down to the version: line is indented deeper than the "- name:" line (empty lines and
\* comments apart).  Stated for documents indented with spaces.
C20_ReleaseScopeByIndent ==
    ~Contains(original, "\t") =>
        \A e \in edits :
            e.pass = "release" => (e.name >= 1 /\ Within(Orig, e.name, e.at))

\* the Chart scope that the chart: line c opens still holds at line j: every line between
\* is indented deeper than c, or is a name: or version: line (or empty, or a comment)
ChartOpenTo(ls, c, j) ==
    /\ c < j
    /\ IsChartHead(ls[c])
    /\ \A k \in (c + 1)..(j - 1) :
          \/ IndentOf(ls[k]) > IndentOf(ls[c])
          \/ IsChartName(ls[k])
          \/ IsVersion(ls[k])
          \/ Ignorable(ls[k])

\* C21 (Chart scope under an anchor closes by its own indent): an anchor pass rewrites a
\* version: line only while the Chart scope of a chart: line above it is open, a scope
\* that a sibling key of chart: (a line at the indent of chart: or less that is neither
\* name: nor version:) has closed.  Stated for documents indented with spaces.
C21_AnchorChartByIndent ==
    ~Contains(original, "\t") =>
        \A e \in edits :
            e.pass = "anchor" => \E c \in 1..(e.at - 1) : ChartOpenTo(Orig, c, e.at)

\* the release loop body applied to the lines j.. of ls, one after the other
RECURSIVE ScanRelease(_, _, _, _, _)
ScanRelease(ls, j, s, relName, newVer) ==
    IF j > Len(ls) THEN ls
    ELSE LET r == ReleaseLine(ls[j], relName, newVer, s)
         IN  ScanRelease([ls EXCEPT ![j] = r.line], j + 1, r.st, relName, newVer)

RECURSIVE ScanAnchor(_, _, _, _, _)
ScanAnchor(ls, j, s, chartFullName, newVer) ==
    IF j > Len(ls) THEN ls
    ELSE LET r == AnchorLine(ls[j], chartFullName, newVer, s)
         IN  ScanAnchor([ls EXCEPT ![j] = r.line], j + 1, r.st, chartFullName, newVer)

\* the passes for the keys todo, run in one fixed order of the keys
RECURSIVE ReleasePasses(_, _, _)
ReleasePasses(ls, m, todo) ==
    IF todo = {} THEN ls
    ELSE LET k == CHOOSE x \in todo : TRUE
         IN  ReleasePasses(ScanRelease(ls, 1, RelInit, k, m[k]), m, todo \ {k})

RECURSIVE AnchorPasses(_, _, _)
AnchorPasses(ls, m, todo) ==
    IF todo = {} THEN ls
    ELSE LET k == CHOOSE x \in todo : TRUE
         IN  AnchorPasses(ScanAnchor(ls, 1, AncInit, k, m[k]), m, todo \ {k})

\* the text updateFileText returns when both maps are visited in that fixed order
FixedOrderText ==
    Join(AnchorPasses(ReleasePasses(Split(original), versionMap, DOMAIN versionMap),
                      chartVersionMap, DOMAIN chartVersionMap))

\* C22 (determinism under map order): no line is rewritten by the passes of two different
\* release names, nor by the passes of two different chart identities, and the returned
\* text is the one function of the document and the two mappings that a fixed visiting
\* order yields, whatever order the range loops took.
C22_MapOrder ==
    /\ \A e \in edits, f \in edits : (e.pass = f.pass /\ e.at = f.at) => e.key = f.key
    /\ pc = "done" => out = FixedOrderText

(***************************************************************************)
(* Properties of a run of main.                                            *)
(***************************************************************************)
\* C12 (the stripped copy is never the source): once readHelmwave has returned, data is
\* the bytes of the input file and not the stripped copy; updateFileText is called on
\* exactly those bytes; and what is written is the text updateFileText returned.
C12_OriginalIsSource ==
    /\ mPc \in {"process", "build", "update"} => data = fs[Filename].bytes
    /\ mPc = "update" => original = fs[Filename].bytes
    /\ \A k \in 1..Len(writes) : pc = "done" /\ writes[k].bytes = out

\* a run that stripped both sections from the parser's copy, patched a line and wrote
C12_Witness ==
    /\ mPc = "exit"
    /\ Len(writes) = 1
    /\ writes[1].ok
    /\ Len(processed) < Len(data)
    /\ edits # {}
    /\ HasPrefix(writes[1].bytes, RepositoriesKey)

\* the "- name:" lines of the sequence under releases:, in document order
ItemHeads(ls) ==
    Sorted({t \in 1..Len(ls) :
               /\ IsItemHead(ls[t])
               /\ \E h \in 1..t : ls[h] = ReleasesKey /\ Within(ls, h, t)})

\* C13 (noupdate opt-out): when updateFileText has returned, every version: line inside
\* a release item whose tags: hold noupdate (case-insensitively, surrounding whitespace
\* ignored) is byte for byte the line of the input file.  (Stated for the runs in which
\* every release declares a chart version.)
C13_NoupdateKept ==
    (/\ mPc \in {"update", "exit"}
     /\ pc = "done"
     /\ \A k \in 1..Len(hw) : hw[k].Chart.Version # <<>>) =>
        \A k \in 1..Len(hw) :
            hasTag(hw[k].Tags, NoupdateTag) =>
                \A j \in 1..Len(Orig) :
                    (Within(Orig, ItemHeads(Orig)[k], j) /\ IsVersion(Orig[j]))
                    => lines[j] = Orig[j]

\* the release carries the noupdate tag: one of its tags, surrounding whitespace
\* removed and letters lowered, reads noupdate
Tagged(r) ==
    \E k \in 1..Len(r.Tags) :
        LET t == TrimSpace(r.Tags[k])
        IN  [m \in 1..Len(t) |-> Fold(t[m])] = NoupdateTag

\* the releases that may contribute the entry for name n / chart name n
NamedUntagged(n) == {k \in 1..Len(hw) : hw[k].Name = n /\ ~Tagged(hw[k])}
ChartUntagged(n) == {k \in 1..Len(hw) : hw[k].Chart.Name = n /\ ~Tagged(hw[k])}

Max(S) == CHOOSE x \in S : \A y \in S : y <= x

\* C14 (desired-version mappings): the keys of versionMap are the non-empty names of the
\* releases without the noupdate tag, the keys of chartVersionMap the non-empty chart
\* names of those releases; each value is the chart version of the last such release in
\* list order.
C14_Mappings ==
    mPc = "update" =>
        /\ DOMAIN versionMap =
              {hw[k].Name : k \in {m \in 1..Len(hw) : ~Tagged(hw[m])}} \ {<<>>}
        /\ \A n \in DOMAIN versionMap :
              versionMap[n] = hw[Max(NamedUntagged(n))].Chart.Version
        /\ DOMAIN chartVersionMap =
              {hw[k].Chart.Name : k \in {m \in 1..Len(hw) : ~Tagged(hw[m])}} \ {<<>>}
        /\ \A n \in DOMAIN chartVersionMap :
              chartVersionMap[n] = hw[Max(ChartUntagged(n))].Chart.Version

\* two releases of one name with different versions, the second tagged " NoUpdate ":
\* the entry is the version of the first
C14_Witness ==
    /\ mPc = "update"
    /\ Len(hw) = 2
    /\ hw[1].Name = hw[2].Name
    /\ hw[1].Chart.Version # hw[2].Chart.Version
    /\ ~Tagged(hw[1])
    /\ Tagged(hw[2])
    /\ NoupdateTag \notin {hw[2].Tags[k] : k \in 1..Len(hw[2].Tags)}
    /\ versionMap = (hw[1].Name :> hw[1].Chart.Version)

\* C15 (output destination): a run that ends with status 0 after patching has made one
\* os.WriteFile call, on <file>.updated when inplace is false and on the input path when
\* it is true; that file then holds the patched text; and no step of the run
\* changes the other path (the input file, while inplace is false).
C15_Destination ==
    /\ []((mPc = "exit" /\ exitCode = 0 /\ ~showVersion) =>
             /\ Len(writes) = 1
             /\ writes[1].path = (IF inplace THEN Filename ELSE Filename \o UpdatedSuffix)
             /\ fs[writes[1].path] = [exists |-> TRUE, bytes |-> out])
    /\ [][\A p \in Paths :
              p # (IF inplace THEN Filename ELSE Filename \o UpdatedSuffix)
              => fs'[p] = fs[p]]_vars

\* a run without -inplace that patched a line and left a new <file>.updated beside the
\* untouched input
C15_Witness ==
    /\ mPc = "exit"
    /\ exitCode = 0
    /\ ~inplace
    /\ edits # {}
    /\ fs[Filename \o UpdatedSuffix].exists
    /\ fs[Filename \o UpdatedSuffix].bytes # fs[Filename].bytes
    /\ fs[Filename].bytes = original

\* the failures of a run
CfgFails == ~showVersion /\ ~repoCfg.ok
ReadFails == ~showVersion /\ ~fs[Filename].exists
ParseFails ==
    /\ mPc \notin {"start", "load", "read", "strip1", "strip2"}
    /\ sPc = "done"
    /\ section = RegistriesKey
    /\ YError(Split(stripped))
WriteFails == \E k \in 1..Len(writes) : ~writes[k].ok

\* C16 (single write, fatal failures): os.WriteFile is called at most once in a run, and
\* only when the repository config was loaded, the input was read and parsed and every
\* pass of updateFileText has finished; a run in which loading the config, reading,
\* parsing or writing failed does not go on and ends with a non-zero status; in the first
\* three cases no os.WriteFile call is made.
C16_SingleWriteFatal ==
    /\ Len(writes) <= 1
    /\ writes # <<>> =>
          /\ repoCfg.ok
          /\ original = data
          /\ ~YError(Split(processed))
          /\ pc = "done" /\ relTodo = {} /\ chartTodo = {}
    /\ (CfgFails \/ ReadFails \/ ParseFails) =>
          /\ writes = <<>>
          /\ mPc \notin {"process", "build", "update"}
    /\ (mPc = "exit" /\ (CfgFails \/ ReadFails \/ ParseFails \/ WriteFails)) =>
          exitCode \notin {0, -1}

\* a run that loaded the indexes, read the file, stripped both sections and then failed
\* to parse a template expression left in a release
C16_Witness ==
    /\ mPc = "exit"
    /\ exitCode = 1
    /\ ParseFails
    /\ indexes # <<>>
    /\ Len(processed) < Len(data)
    /\ writes = <<>>

\* C23 (no version is blanked): every desired version that buildVersionMap and
\* buildChartVersionMap hand to updateFileText is a non-empty string, and no line whose
\* version value was non-empty in the file carries an empty value in the buffer.
C23_NoBlankVersion ==
    /\ mPc = "update" =>
          /\ \A k \in DOMAIN versionMap : versionMap[k] # <<>>
          /\ \A k \in DOMAIN chartVersionMap : chartVersionMap[k] # <<>>
    /\ \A j \in Changed :
          Scalar(Orig[j], VersionKey) # <<>> => Scalar(lines[j], VersionKey) # <<>>

(***************************************************************************)
(* Further properties of updateFileText.                                   *)
(***************************************************************************)
\* the "- name:" lines above line j
HeadsAbove(ls, j) == {s \in 1..(j - 1) : IsItemHead(ls[s])}

\* C24 (a sibling list item closes the scope): the pass for release name R rewrites a
\* version: line only if the nearest "- name:" line above it has the value R (comment
\* and quotes stripped); and the step that scans a "- name:" line of another value
\* leaves the Release scope and the Chart scope closed, while one of value R leaves the
\* Release scope open and the Chart scope closed.
C24_SiblingCloses ==
    /\ [](\A e \in edits :
            e.pass = "release" =>
                /\ HeadsAbove(Orig, e.at) # {}
                /\ Scalar(Orig[Max(HeadsAbove(Orig, e.at))], DashName) = e.key)
    /\ [][(pc = "relScan" /\ i' = i + 1 /\ IsItemHead(lines[i + 1])) =>
            IF Scalar(lines[i + 1], DashName) = key
            THEN rs'.inRelease /\ ~rs'.inChart /\ lines' = lines
            ELSE ~rs'.inRelease /\ ~rs'.inChart /\ lines' = lines]_vars

\* the pass for release a has rewritten the version: line of item a, and the item b that
\* follows it, which no key names, kept its version: line
C24_Witness ==
    /\ pc = "done"
    /\ relB \notin DOMAIN versionMap
    /\ \E e \in edits : e.pass = "release" /\ e.key = relA
    /\ \E s \in 1..Len(Orig), j \in 1..Len(Orig) :
          /\ HeadsAbove(Orig, s) # {}
          /\ IsItemHead(Orig[s])
          /\ Scalar(Orig[s], DashName) = relB
          /\ s < j
          /\ IsVersion(Orig[j])
          /\ Max(HeadsAbove(Orig, j)) = s
          /\ lines[j] = Orig[j]

\* a line on which the pass `pass` for `k` opens a scope
OpensScope(l, pass, k) ==
    IF pass = "release" THEN IsItemHead(l) /\ Scalar(l, DashName) = k
    ELSE IsAnchorHead(l)

\* the step that handles a version: line inside an open Chart scope closes both scopes
HandledCloses ==
    /\ (pc = "relScan" /\ i' = i + 1 /\ rs.inRelease /\ rs.inChart
         /\ IsVersion(lines[i + 1]))
       => (/\ ~rs'.inRelease
           /\ ~rs'.inChart
           /\ Scalar(lines'[i + 1], VersionKey) = versionMap[key])
    /\ (pc = "ancScan" /\ i' = i + 1 /\ as.inAnchor /\ as.inChart
         /\ IsVersion(lines[i + 1]) /\ IndentOf(lines[i + 1]) > as.anchorIndent
         /\ as.foundChartName = key)
       => (/\ ~as'.inAnchor
           /\ ~as'.inChart
           /\ as'.foundChartName = <<>>
           /\ Scalar(lines'[i + 1], VersionKey) = chartVersionMap[key])

\* C25 (one target per scope entry): the step that handles a version: line inside an
\* open Chart scope (in the anchor pass: when the name on record is the pass's chart
\* identity) leaves that line with the desired value and closes the Chart scope and the
\* Release or Anchor scope; so two lines rewritten by one pass have a scope-opening line
\* of that pass between them.
C25_OneTargetPerEntry ==
    /\ [](\A e \in edits, f \in edits :
            (e.pass = f.pass /\ e.key = f.key /\ e.at < f.at)
            => \E s \in (e.at + 1)..(f.at - 1) : OpensScope(Orig[s], e.pass, e.key))
    /\ [][HandledCloses]_vars

\* the pass for release a has rewritten the first version: line of an item and left the
\* version: line right below it, which carries another value than the desired one
C25_Witness ==
    /\ pc = "done"
    /\ \E e \in edits :
          /\ e.pass = "release"
          /\ e.at < Len(lines)
          /\ IsVersion(Orig[e.at + 1])
          /\ lines[e.at + 1] = Orig[e.at + 1]
          /\ Scalar(Orig[e.at + 1], VersionKey) # versionMap[e.key]

\* the step that scans a blank line in a release pass
BlankScanned ==
    (pc = "relScan" /\ i' = i + 1 /\ TrimSpace(lines[i + 1]) = <<>>)
    => /\ lines' = lines
       /\ IF rs.inRelease /\ rs.inChart /\ IndentOf(lines[i + 1]) <= rs.chartIndent
          THEN rs' = [rs EXCEPT !.inChart = FALSE]
          ELSE rs' = rs

\* C26 (blank line inside a release's Chart scope): the release pass scans a blank line
\* as any other line: with the Chart scope open and the line's count of leading spaces at
\* most the chart-opening indent it closes the Chart scope (and nothing else), otherwise
\* it changes no flag; so a release pass rewrites a version: line only if some chart:
\* line above it has no blank line of its indent or less in between.
C26_BlankClosesChart ==
    /\ [](\A e \in edits :
            e.pass = "release" =>
                \E c \in 1..(e.at - 1) :
                    /\ IsChartHead(Orig[c])
                    /\ \A k \in (c + 1)..(e.at - 1) :
                          ~(TrimSpace(Orig[k]) = <<>> /\ IndentOf(Orig[k]) <= IndentOf(Orig[c])))
    /\ [][BlankScanned]_vars

\* the pass for release a is over; the version: line of an item a, whose value is not the
\* desired one, sits below an empty line that follows the item's chart: line and is as
\* it was
C26_Witness ==
    /\ pc = "done"
    /\ relA \in DOMAIN versionMap
    /\ \E j \in 4..Len(Orig) :
          /\ IsVersion(Orig[j])
          /\ Orig[j - 1] = <<>>
          /\ IsChartHead(Orig[j - 2])
          /\ IsItemHead(Orig[j - 3])
          /\ Scalar(Orig[j - 3], DashName) = relA
          /\ Scalar(Orig[j], VersionKey) # versionMap[relA]
          /\ lines[j] = Orig[j]

\* the line leaves the anchor of indent n: indent at most n, and neither chart: nor a comment
LeavesAnchor(l, n) ==
    /\ IndentOf(l) <= n
    /\ ~HasPrefix(TrimSpace(l), ChartKey)
    /\ ~HasPrefix(TrimSpace(l), <<"#">>)

\* the step of an anchor pass that scans a line with the Anchor scope open
AnchorOpenScanned ==
    (pc = "ancScan" /\ i' = i + 1 /\ as.inAnchor)
    => LET l == lines[i + 1]
       IN  /\ LeavesAnchor(l, as.anchorIndent)
              => (/\ ~as'.inAnchor
                  /\ ~as'.inChart
                  /\ as'.foundChartName = <<>>
                  /\ lines' = lines)
           /\ HasPrefix(TrimSpace(l), <<"#">>) => (as'.inAnchor /\ lines' = lines)
           /\ l = <<>> => ~as'.inAnchor
           /\ ~as'.inAnchor
              => \/ LeavesAnchor(l, as.anchorIndent)
                 \/ as.inChart /\ IsVersion(l) /\ as.foundChartName = key

\* C27 (anchor closing rule): with the Anchor scope open, a line with indent at most the
\* anchor's indent closes it unless its trimmed form starts with chart: or #; a comment
\* line never closes it, an empty line does; the only other step that closes it is the
\* handling of a version: line; and whenever the Anchor scope is closed the Chart scope
\* is closed and no chart name is on record.
C27_AnchorCloses ==
    /\ [](pc = "ancScan" /\ ~as.inAnchor => ~as.inChart /\ as.foundChartName = <<>>)
    /\ [][AnchorOpenScanned]_vars

\* the pass for r/x has just left an anchor of chart r/c at a top-level key: the name
\* that was on record is forgotten
C27_Witness ==
    /\ pc = "ancScan"
    /\ key = chartX
    /\ i >= 5
    /\ lines[i] = LKey(0, <<"o">>)
    /\ IsVersion(lines[i - 1])
    /\ IsChartName(lines[i - 2])
    /\ Scalar(lines[i - 2], NameKey) = chartC
    /\ IsChartHead(lines[i - 3])
    /\ IsAnchorHead(lines[i - 4])
    /\ ~as.inAnchor
    /\ as.foundChartName = <<>>

\* C28 (the anchor's chart name is compared without its comment): the chart identity an
\* anchor pass has on record is the scalar of the name: line it was taken from, quotes
\* and trailing # comment removed; so a document that starts with an anchor made of
\* chart:, a name: line of a chart identity in the mapping, with or without a comment,
\* and a version: line has that version: line at the desired value when the call returns.
C28_AnchorNameNoComment ==
    /\ (pc = "ancScan" /\ nameAt >= 1)
       => as.foundChartName = Scalar(lines[nameAt], NameKey)
    /\ (/\ pc = "done"
        /\ Len(Orig) >= 4
        /\ IsAnchorHead(Orig[1])
        /\ IndentOf(Orig[1]) = 0
        /\ IsChartHead(Orig[2])
        /\ IsChartName(Orig[3])
        /\ IndentOf(Orig[3]) > 0
        /\ Scalar(Orig[3], NameKey) \in DOMAIN chartVersionMap
        /\ IsVersion(Orig[4])
        /\ IndentOf(Orig[4]) > 0)
       => Scalar(lines[4], VersionKey) = chartVersionMap[Scalar(Orig[3], NameKey)]

(***************************************************************************)
(* Further properties of removeTopLevelSection.                            *)
(***************************************************************************)
\* one step of the loop of removeTopLevelSection
StripScanned ==
    (sPc = "scan" /\ sI' = sI + 1)
    => LET l == sLines[sI + 1]
       IN  IF skip
           THEN IF TrimSpace(l) = <<>> \/ IndentOf(l) > sectionIndent
                THEN sOut' = sOut /\ skip' /\ sectionIndent' = sectionIndent
                ELSE sOut' = Append(sOut, l) /\ ~skip'
           ELSE IF HasPrefix(TrimSpace(l), section \o <<":">>)
                THEN sOut' = sOut /\ skip' /\ sectionIndent' = IndentOf(l)
                ELSE sOut' = Append(sOut, l) /\ ~skip'

C30_TopLevelOnly ==
    (/\ sPc = "done"
     /\ \A k \in HeaderLines(Split(sInput)) : IndentOf(Split(sInput)[k]) > 0)
    => stripped = sInput

\* C31 (no section header survives stripping): no line of the text that
\* removeTopLevelSection returns has a trimmed form that starts with the section name
\* and a colon.
C31_NoHeaderSurvives ==
    sPc = "done" =>
        \A k \in 1..Len(Split(stripped)) :
            ~HasPrefix(TrimSpace(Split(stripped)[k]), section \o <<":">>)

\* a step that closes or reopens the outer scope leaves the Chart flag cleared
OuterChangeClearsChart ==
    /\ (pc = "relScan" /\ i' = i + 1)
       => ((\/ rs'.inRelease # rs.inRelease
            \/ IsItemHead(lines[i + 1]) /\ Scalar(lines[i + 1], DashName) = key)
           => ~rs'.inChart)
    /\ (pc = "ancScan" /\ i' = i + 1)
       => (as'.inAnchor # as.inAnchor => ~as'.inChart)

\* C32 (the Chart scope nests inside its parent): the Chart flag of the release pass is
\* set only while its Release flag is set, the Chart flag of the anchor pass only while
\* its Anchor flag is set, and every step that opens, closes or reopens the outer scope
\* leaves the Chart flag cleared.
C32_ChartNests ==
    /\ []((rs.inChart => rs.inRelease) /\ (as.inChart => as.inAnchor))
    /\ [][OuterChangeClearsChart]_vars

\* the release pass has just reopened the Release scope at a second "- name:" line of its
\* name while the Chart scope of the first item was open
C32_Witness ==
    /\ pc = "relScan"
    /\ i >= 4
    /\ IsItemHead(lines[i])
    /\ Scalar(lines[i], DashName) = key
    /\ IsChartName(lines[i - 1])
    /\ IsChartHead(lines[i - 2])
    /\ IsItemHead(lines[i - 3])
    /\ Scalar(lines[i - 3], DashName) = key
    /\ rs.inRelease
    /\ ~rs.inChart

\* C33 (only version: lines are ever touched): through every pass the buffer has the
\* lines of the input, and a line that differs from the input's started with version:
\* in the input and starts with version: now; the same holds of the returned text.
C33_OnlyVersionLines ==
    /\ pc \in {"releases", "relScan", "anchors", "ancScan", "done"} =>
          LET src == Orig
          IN  /\ Len(lines) = Len(src)
              /\ \A j \in 1..Len(src) :
                    lines[j] # src[j] => (IsVersion(src[j]) /\ IsVersion(lines[j]))
    /\ pc = "done" =>
          LET res == Split(out)
              src == Orig
          IN  /\ Len(res) = Len(src)
              /\ \A j \in 1..Len(src) :
                    res[j] # src[j] => (IsVersion(src[j]) /\ IsVersion(res[j]))

\* a version: line was rewritten in a document that has a "- name:" line, a chart: line,
\* a name: line, a comment and an empty line
C33_Witness ==
    /\ pc = "done"
    /\ out # original
    /\ \E k \in 1..Len(Orig) : IsItemHead(Orig[k])
    /\ \E k \in 1..Len(Orig) : IsChartHead(Orig[k])
    /\ \E k \in 1..Len(Orig) : IsChartName(Orig[k])
    /\ \E k \in 1..Len(Orig) : Orig[k] = LComment
    /\ \E k \in 1..Len(Orig) : Orig[k] = <<>>

(***************************************************************************)
(* Further properties of a run of main.                                    *)
(***************************************************************************)
\* the position of the first "/" of a chart name, 0 when it has none
SlashAt(n) == IF \E k \in 1..Len(n) : n[k] = "/"
              THEN Min({k \in 1..Len(n) : n[k] = "/"})
              ELSE 0

RepoOf(r) == SubSeq(r.Chart.Name, 1, SlashAt(r.Chart.Name) - 1)
ChartOf(r) == SubSeq(r.Chart.Name, SlashAt(r.Chart.Name) + 1, Len(r.Chart.Name))

\* the release is one that processReleases compares: untagged, chart name repo/chart,
\* an index loaded for repo with an entry for chart, a current version
Compared(r) ==
    /\ ~Tagged(r)
    /\ SlashAt(r.Chart.Name) > 0
    /\ RepoOf(r) \in DOMAIN indexes
    /\ ChartOf(r) \in DOMAIN indexes[RepoOf(r)]
    /\ Len(indexes[RepoOf(r)][ChartOf(r)]) >= 1
    /\ r.Chart.Version # <<>>

\* the first index entry's version, a leading v removed
Latest(r) ==
    LET e == indexes[RepoOf(r)][ChartOf(r)][1]
    IN  IF e # <<>> /\ Head(e) = "v" THEN Tail(e) ELSE e

\* C34 (frame of processReleases): when processReleases has returned, hw.Releases has
\* the releases that were parsed, in number and order, with their names, chart names and
\* tag lists; the chart version of a compared release is the first index entry's version
\* without a leading v, and that of every other release is the parsed one.
C34_ProcessFrame ==
    mPc = "build" =>
        LET pre == Unmarshal(processed)
        IN  /\ Len(hw) = Len(pre)
            /\ \A id \in 1..Len(pre) :
                  /\ hw[id].Name = pre[id].Name
                  /\ hw[id].Chart.Name = pre[id].Chart.Name
                  /\ hw[id].Tags = pre[id].Tags
                  /\ hw[id].Chart.Version =
                        IF Compared(pre[id]) THEN Latest(pre[id])
                        ELSE pre[id].Chart.Version

\* two releases were parsed; one was moved to the newest version of its chart, the
\* other, tagged noupdate and behind the newest version, was left
C34_Witness ==
    /\ mPc = "build"
    /\ Len(hw) = 2
    /\ \E id \in 1..2 : hw[id].Chart.Version # Unmarshal(processed)[id].Chart.Version
    /\ \E id \in 1..2 :
          /\ Tagged(hw[id])
          /\ hw[id].Chart.Version = Unmarshal(processed)[id].Chart.Version
          /\ RepoOf(hw[id]) \in DOMAIN indexes
          /\ ChartOf(hw[id]) \in DOMAIN indexes[RepoOf(hw[id])]
          /\ hw[id].Chart.Version # Latest(hw[id])

\* the configured repositories whose index file could not be loaded
SkippedRepos == {repoCfg.names[k] : k \in 1..Len(repoCfg.names)} \ DOMAIN indexes

\* C35: loadIndexes fails, and the run ends before the document is read, only when the
\* repository config cannot be loaded; a repository whose index file cannot be loaded is
\* left out of the result while every other configured repository is in it, the run goes
\* on, the releases of a repository left out keep their version and the releases of the
\* others are moved to the newest version of their chart
C35_IndexTolerance ==
    /\ CfgFails => (mPc \in {"start", "load", "exit"} /\ data = <<>> /\ hw = <<>>)
    /\ (CfgFails /\ mPc = "exit") => exitCode = 1
    /\ (~showVersion /\ repoCfg.ok /\ mPc \notin {"start", "load"}) =>
          /\ DOMAIN indexes =
                {n \in {repoCfg.names[k] : k \in 1..Len(repoCfg.names)} : idxCache[n].ok}
          /\ \A n \in DOMAIN indexes : indexes[n] = idxCache[n].entries
    /\ (mPc = "exit" /\ exitCode # 0 /\ ~showVersion /\ ~ReadFails /\ ~WriteFails
            /\ ~ParseFails) => ~repoCfg.ok
    /\ mPc = "build" =>
          LET pre == Unmarshal(processed)
          IN  \A id \in 1..Len(pre) :
                 /\ RepoOf(pre[id]) \in SkippedRepos =>
                        hw[id].Chart.Version = pre[id].Chart.Version
                 /\ (RepoOf(pre[id]) \notin SkippedRepos /\ Compared(pre[id])) =>
                        hw[id].Chart.Version = Latest(pre[id])

\* the index of repository r could not be loaded and that of q could; the release of
\* chart r/c kept version 1 and the release of chart q/c was moved to 3, and the file
\* written says so
C35_Witness ==
    /\ mPc = "exit"
    /\ exitCode = 0
    /\ SkippedRepos = {<<"r">>}
    /\ DOMAIN indexes = {<<"q">>}
    /\ Len(hw) = 2
    /\ hw[1].Chart.Name = chartC /\ hw[1].Chart.Version = v1
    /\ hw[2].Chart.Name = chartQ /\ hw[2].Chart.Version = v3
    /\ Len(writes) = 1
    /\ Split(writes[1].bytes) =
          <<ReleasesKey>> \o MRelease(LName(relA), chartC, <<LVer(6, TPlain(v1))>>, <<>>)
                         \o MRelease(LName(relB), chartQ, <<LVer(6, TPlain(v3))>>, <<>>)

(***************************************************************************)
(* checkAppVersion: the update importance printed for a release whose      *)
(* chart has a newer version.                                              *)
(***************************************************************************)
MaxComponent == 2

Digits == <<"0", "1", "2", "3", "4", "5", "6", "7", "8", "9">>

IsNumber(s) == s # <<>> /\ \A k \in 1..Len(s) : \E d \in 1..10 : Digits[d] = s[k]

DigitVal(c) == (CHOOSE d \in 1..10 : Digits[d] = c) - 1

RECURSIVE ParseUint(_)
ParseUint(s) ==
    IF s = <<>> THEN 0
    ELSE 10 * ParseUint(SubSeq(s, 1, Len(s) - 1)) + DigitVal(s[Len(s)])

\* strings.Split(vv, ".")
RECURSIVE SplitDot(_)
SplitDot(t) ==
    LET k == Index(t, ".")
    IN  IF k < 0 THEN <<t>>
        ELSE <<SubSeq(t, 1, k)>> \o SplitDot(SubSeq(t, k + 2, Len(t)))

normalizeSemVer(v) ==
    LET vv == TrimPrefix(TrimSpace(v), <<"v">>)
        parts == SplitDot(vv)
    IN  IF Len(parts) = 1 THEN vv \o <<".", "0", ".", "0">>
        ELSE IF Len(parts) = 2 THEN vv \o <<".", "0">>
        ELSE vv

\* semver.NewVersion on a text without pre-release or build part: one to three numbers
\* separated by dots after an optional v, anything else is an error
NewVersion(t) ==
    LET parts == SplitDot(TrimPrefix(t, <<"v">>))
        num(k) == IF k <= Len(parts) THEN ParseUint(parts[k]) ELSE 0
    IN  IF Len(parts) \in 1..3 /\ \A k \in 1..Len(parts) : IsNumber(parts[k])
        THEN [ok |-> TRUE, Major |-> num(1), Minor |-> num(2), Patch |-> num(3)]
        ELSE [ok |-> FALSE, Major |-> 0, Minor |-> 0, Patch |-> 0]

\* the AppVersion of the first entry whose version is the release's chart version
CurrentAppVer(release, versions) ==
    LET hits == {k \in 1..Len(versions) :
                    TrimPrefix(versions[k].Version, <<"v">>) = release.Chart.Version}
    IN  IF hits = {} THEN <<>> ELSE versions[Min(hits)].AppVersion

LatestAppVer(versions) == IF Len(versions) > 0 THEN versions[1].AppVersion ELSE <<>>

\* the switch over lat and cur
ImportanceOf(cur, lat) ==
    IF lat.Major > cur.Major THEN "major"
    ELSE IF lat.Minor > cur.Minor THEN "minor"
    ELSE IF lat.Patch > cur.Patch THEN "patch"
    ELSE "none"

\* the label checkAppVersion prints, "" when it returns without printing one
checkAppVersion(release, versions) ==
    LET currentAppVer == CurrentAppVer(release, versions)
        latestAppVer == LatestAppVer(versions)
        cur == NewVersion(normalizeSemVer(currentAppVer))
        lat == NewVersion(normalizeSemVer(latestAppVer))
    IN  IF currentAppVer = <<>> THEN ""
        ELSE IF ~cur.ok \/ ~lat.ok THEN ""
        ELSE ImportanceOf(cur, lat)

\* the app versions tried: every major.minor.patch up to MaxComponent, and some short,
\* prefixed, padded, two-digit, unparsable and empty ones
Dotted(a, b, c) == <<Digits[a + 1], ".", Digits[b + 1], ".", Digits[c + 1]>>

AppVersionPool ==
    {Dotted(a, b, c) : a \in 0..MaxComponent, b \in 0..MaxComponent, c \in 0..MaxComponent}
    \cup {<<"1">>, <<"v", "2">>, <<"1", ".", "2">>, <<" ", "v", "1", ".", "0", ".", "1", " ">>,
          <<"1", ".", "1", "0", ".", "0">>, <<"1", ".", "9", ".", "0">>,
          <<"1", ".", "0", ".", "0", ".", "0">>, <<"x">>, <<>>}

\* the chart has version v2 with app version lat and version 1 with app version cur;
\* the release is at chart version 1, or at 2, or at one the index does not list
InitApp ==
    /\ MainIdle
    /\ StripIdle
    /\ UpdateIdle
    /\ appPc = "call"
    /\ \E cur \in AppVersionPool, lat \in AppVersionPool, rv \in {v1, v2, <<"9">>} :
          /\ rv # v1 => cur = Dotted(1, 0, 0)
          /\ appRelease = [Chart |-> [Version |-> rv]]
          /\ appVersions = <<[Version |-> <<"v", "2">>, AppVersion |-> lat],
                             [Version |-> <<"1">>, AppVersion |-> cur]>>
    /\ importanceLabel = ""

CheckAppVersion ==
    /\ appPc = "call"
    /\ importanceLabel' = checkAppVersion(appRelease, appVersions)
    /\ appPc' = "done"
    /\ UNCHANGED <<uvars, svars, mvars, appRelease, appVersions>>

NextApp == CheckAppVersion

SpecApp == InitApp /\ [][NextApp]_vars

\* the versions checkAppVersion parsed
CurParsed == NewVersion(normalizeSemVer(CurrentAppVer(appRelease, appVersions)))
LatParsed == NewVersion(normalizeSemVer(LatestAppVer(appVersions)))

\* lat is greater than cur as a semantic version
SemVerGreater(lat, cur) ==
    \/ lat.Major > cur.Major
    \/ lat.Major = cur.Major /\ lat.Minor > cur.Minor
    \/ lat.Major = cur.Major /\ lat.Minor = cur.Minor /\ lat.Patch > cur.Patch

\* C36: when both app versions parse, the label is major, minor or patch by the most
\* significant component in which the latest version exceeds the current one, and none
\* whenever the latest version is not greater than the current one
C36_Importance ==
    (appPc = "done" /\ CurrentAppVer(appRelease, appVersions) # <<>>
        /\ CurParsed.ok /\ LatParsed.ok) =>
       importanceLabel =
          IF ~SemVerGreater(LatParsed, CurParsed) THEN "none"
          ELSE IF LatParsed.Major > CurParsed.Major THEN "major"
          ELSE IF LatParsed.Minor > CurParsed.Minor THEN "minor"
          ELSE "patch"

(***************************************************************************)
(* Termination and the scans of updateFileText.                            *)
(***************************************************************************)
\* a step of a scan moves to the next index; a scan ends only past the last index; a
\* scan starts at index 0 for one key not visited yet; the keys to visit are those of
\* the two maps, and the function returns when none is left
ScanStep ==
    /\ (pc \in {"relScan", "ancScan"} /\ pc' = pc) =>
          (i < Len(lines) /\ i' = i + 1 /\ Len(lines') = Len(lines) /\ key' = key)
    /\ (pc \in {"relScan", "ancScan"} /\ pc' # pc) =>
          (i = Len(lines) /\ Len(lines) = Len(Split(original)))
    /\ (pc # "relScan" /\ pc' = "relScan") =>
          (i' = 0 /\ key' \in relTodo /\ relTodo' = relTodo \ {key'})
    /\ (pc # "ancScan" /\ pc' = "ancScan") =>
          (i' = 0 /\ key' \in chartTodo /\ chartTodo' = chartTodo \ {key'})
    /\ relTodo' # relTodo =>
          (pc' = "relScan" \/ (pc = "call" /\ relTodo' = DOMAIN versionMap))
    /\ chartTodo' # chartTodo =>
          (pc' = "ancScan" \/ (pc = "call" /\ chartTodo' = DOMAIN chartVersionMap))
    /\ (pc # "done" /\ pc' = "done") => (relTodo = {} /\ chartTodo = {})

\* C37: updateFileText terminates on every input; it makes one scan of the line buffer
\* for each entry of versionMap and one for each entry of chartVersionMap, every scan
\* visits each line index once in increasing order, and no scan ends before the last
\* line, also not after an edit or after an equal version was found
C37_TerminatesFullScans == <>(pc = "done") /\ [][ScanStep]_vars

\* the function returned after a scan for a release and one for a chart, and a line
\* that is not the last one was rewritten
C37_Witness ==
    /\ pc = "done"
    /\ DOMAIN versionMap # {}
    /\ DOMAIN chartVersionMap # {}
    /\ \E e \in edits : e.pass = "release" /\ e.at < Len(lines)

====
